---- MODULE Spec2Model ----
(***************************************************************************)
(* Cubie query service (src/main.py): intent classification, semantic      *)
(* retrieval over the help index, and the analytics agent loop with its    *)
(* model-fallback send step and its tools (src/analytics_tools.py).        *)
(*                                                                         *)
(* Text is modelled as TLA+ strings; substring tests, lower/upper casing   *)
(* and stripping are computed character by character.                      *)
(***************************************************************************)
EXTENDS Integers, Sequences, FiniteSets, TLC

VARIABLES
    \* ---- classify_intent (src/main.py:202-315)
    query,          \* the user's message
    explicit_mode,  \* mode set by the frontend
    history,        \* recent conversation history (roles)
    q_lower,        \* query.lower()
    cl_pc,          \* position inside classify_intent
    intent,         \* value returned by classify_intent
    returned_by,    \* stage that produced the return value
    llm_outcome,    \* what the generative classification call did
    llm_calls,      \* number of generative classification calls made
    prompt,         \* prompt handed to the generative classification call
    \* ---- search_documents (src/main.py:126-145)
    documents,      \* the help index, in load order
    sims,           \* cosine similarity of the query to each document (x100)
    s_query,        \* search_documents argument query
    top_k,          \* search_documents argument top_k
    s_pc,           \* position inside search_documents
    s_result,       \* value returned by search_documents
    \* ---- chunk_text (src/enhance_embeddings.py:78-100), which cuts the help
    \*      documents into the entries of the index
    chunker,        \* the arguments and locals of one call of chunk_text
    \* ---- handle_query (src/main.py:568-1354)
    chat_model,     \* CHAT_MODEL, read from the environment at start-up
    LAST_BODY,      \* process-wide: text of the last analytics answer
    LAST_CHARTS,    \* process-wide: chart references kept for later emails
    EMAIL_DRAFTS,   \* process-wide: pending draft per session id
    chart_log,      \* every chart reference generated so far, oldest first
    turns,          \* requests answered so far
    t_pc,           \* position inside handle_query
    t_query,        \* body["question"]
    mode,           \* body["mode"], possibly overridden by the intent
    conversation_history, \* body["history"]
    detected_intent,
    top_docs,       \* retrieval result used for the help context
    embed_failed,   \* whether search_documents raised in this turn
    context,        \* build_context(top_docs)
    user_message,   \* query plus help context
    gemini_history, \* the conversation in backend format
    chat,           \* the chat session, or NoChat
    current_model_name,
    current_message,
    model_idx,      \* position of the fallback loop in fallback_models
    response,       \* response of the current send step
    last_error,     \* exception of the latest failed attempt
    attempts,       \* the attempts made in the current send step
    rounds,         \* iterations of the agent loop completed
    sessions_created, \* number of chat sessions created so far
    processed,      \* backend responses processed in this turn
    help_sends,     \* help-mode generation calls made in this turn
    chat_sends,     \* agent-loop send attempts made in this turn
    intercept,      \* what the approval / rejection interception did
    last_chart_snippet, \* latest chart markup of this turn, "" for None
    navigation_result,  \* latest navigate_tool result of this turn, "" for None
    function_responses, \* results of the calls executed so far in this round
    executed,       \* the tool calls executed in this turn
    mails,          \* what the turn handed to the mail collaborator
    raised,         \* exception that reached the handler's outer except
    http,           \* the JSON response returned
    navigation_url, \* response_data["navigation_url"], "" when absent
    \* ---- approve_email (src/main.py:525-566)
    approve_reqs    \* the requests made to /api/approve-email

classifyVars == <<query, explicit_mode, history, q_lower, cl_pc, intent,
                  returned_by, llm_outcome, llm_calls, prompt>>

searchVars == <<documents, sims, s_query, top_k, s_pc, s_result, chunker>>

turnVars == <<chat_model, LAST_BODY, LAST_CHARTS, EMAIL_DRAFTS, chart_log, turns,
              t_pc, t_query, mode, conversation_history,
              detected_intent, top_docs, embed_failed, context, user_message,
              gemini_history, chat, current_model_name, current_message,
              model_idx, response, last_error, attempts, rounds,
              sessions_created, processed, help_sends, chat_sends, intercept,
              last_chart_snippet, navigation_result, function_responses,
              executed, mails, raised, http, navigation_url,
              approve_reqs>>

vars == <<classifyVars, searchVars, turnVars>>

(***************************************************************************)
(* Text helpers: Python's `in`, str.lower, str.upper, str.strip.           *)
(***************************************************************************)
UpperAlphabet == "ABCDEFGHIJKLMNOPQRSTUVWXYZ"
LowerAlphabet == "abcdefghijklmnopqrstuvwxyz"

CharAt(s, i) == SubSeq(s, i, i)

\* p in s
Contains(p, s) ==
    \E i \in 1..(Len(s) - Len(p) + 1) : SubSeq(s, i, i + Len(p) - 1) = p

\* any(p in s for p in list)
AnyIn(list, s) == \E k \in 1..Len(list) : Contains(list[k], s)

\* sum(1 for p in list if p in s)
CountIn(list, s) == Cardinality({k \in 1..Len(list) : Contains(list[k], s)})

\* character tables of str.lower and str.upper
LowerOf == [c \in {CharAt(UpperAlphabet, i) : i \in 1..Len(UpperAlphabet)} |->
              CharAt(LowerAlphabet,
                     CHOOSE i \in 1..Len(UpperAlphabet) : CharAt(UpperAlphabet, i) = c)]

UpperOf == [c \in {CharAt(LowerAlphabet, i) : i \in 1..Len(LowerAlphabet)} |->
              CharAt(UpperAlphabet,
                     CHOOSE i \in 1..Len(LowerAlphabet) : CharAt(LowerAlphabet, i) = c)]

\* the string with every character replaced as the table says, computed by
\* halves so that a long message stays within the evaluator's stack
RECURSIVE MapChars(_, _)
MapChars(s, table) ==
    IF Len(s) = 0 THEN ""
    ELSE IF Len(s) = 1 THEN (IF s \in DOMAIN table THEN table[s] ELSE s)
    ELSE MapChars(SubSeq(s, 1, Len(s) \div 2), table)
         \o MapChars(SubSeq(s, (Len(s) \div 2) + 1, Len(s)), table)

Lower(s) == MapChars(s, LowerOf)
Upper(s) == MapChars(s, UpperOf)

IsSpace(c) == c \in {" ", "\n", "\t"}

RECURSIVE LStrip(_)
LStrip(s) ==
    IF Len(s) > 0 /\ IsSpace(CharAt(s, 1)) THEN LStrip(SubSeq(s, 2, Len(s))) ELSE s

RECURSIVE RStrip(_)
RStrip(s) ==
    IF Len(s) > 0 /\ IsSpace(CharAt(s, Len(s)))
    THEN RStrip(SubSeq(s, 1, Len(s) - 1)) ELSE s

Strip(s) == RStrip(LStrip(s))

(***************************************************************************)
(* Keyword tables of src/main.py.                                          *)
(***************************************************************************)
ANALYTICS_KEYWORDS == <<
    "how many", "count", "total", "sum", "average", "avg", "percentage", "%",
    "shipments", "shipment", "disputes", "dispute", "carriers", "carrier",
    "this month", "last month", "this year", "last year", "year to date", "ytd",
    "top", "bottom", "ranking", "compare", "comparison", "trend", "trends",
    "data", "statistics", "stats", "metrics", "kpi", "kpis",
    "delivery time", "on time", "late", "delayed", "overdue",
    "invoice", "invoices", "cost", "costs", "spend", "spending", "volume",
    "users", "user count", "active users", "how much", "what is the",
    "analysis", "analyze", "report", "summary", "breakdown",
    "which carrier", "which carriers", "performance", "weight", "packages" >>

VISUALIZATION_KEYWORDS == <<
    "chart", "graph", "plot", "visualization", "visualize", "visualise",
    "bar chart", "line chart", "pie chart", "pie graph", "heatmap", "heat map",
    "scatter", "scatter plot", "area chart", "histogram", "donut", "treemap",
    "show me a graph", "show me a chart", "create a chart", "draw a", "plot a",
    "visual representation", "graphical", "diagram" >>

\* the phrase list of the email fast path (line 219)
email_phrases == << "send me", "email this", "email me", "mail me" >>

help_patterns == << "how to", "how do i", "steps to", "steps for", "guide",
    "tutorial", "explain", "what is", "where is", "help with" >>

strong_nav_terms == <<
    "rate calculator", "rate dashboard", "rate maintenance", "audit dashboard",
    "shipment tracking", "dispute management", "reports", "admin", "settings",
    "check rates", "track package", "file a claim" >>

nav_verbs == << "go", "open", "show", "take", "navigate", "launch" >>

\* the categories the router prompt names, in the order the code tests them
NoIntent == "none"
IntentValues == {"analytics", "visualization", "email", "navigation", "help"}

(***************************************************************************)
(* classify_intent, stage by stage.                                        *)
(***************************************************************************)
\* marker for an exception leaving classify_intent
Escaped == "escaped"

\* FastPath with the explicit-mode test placed before the email test
FastPath_ModeFirst(ql, em) ==
    IF em = "analytics"
    THEN IF AnyIn(VISUALIZATION_KEYWORDS, ql) THEN "visualization"
         ELSE "analytics"
    ELSE IF AnyIn(email_phrases, ql) THEN "email"
    ELSE NoIntent

\* FastPath trusting the explicit mode without the visualization carve-out
FastPath_NoCarveOut(ql, em) ==
    IF AnyIn(email_phrases, ql) THEN "email"
    ELSE IF em = "analytics" THEN "analytics"
    ELSE NoIntent

\* Stage 1 (lines 216-227): email phrases, then the explicit analytics mode.
FastPath(ql, em) ==
    IF AnyIn(email_phrases, ql) THEN "email"
    ELSE IF em = "analytics"
         THEN IF AnyIn(VISUALIZATION_KEYWORDS, ql) THEN "visualization"
              ELSE "analytics"
         ELSE NoIntent

\* history_text of the router prompt (lines 232-238): the last two messages
HistoryText(h) ==
    LET recent == IF Len(h) > 2 THEN SubSeq(h, Len(h) - 1, Len(h)) ELSE h
    IN  [i \in 1..Len(recent) |->
            IF recent[i] = "user" THEN "User" ELSE "Assistant"]

\* LLMStage without the except clause: a failed call leaves the function
LLMStage_Uncaught(o) ==
    IF o.kind # "text" THEN Escaped
    ELSE LET t == Upper(Strip(o.text))
         IN  IF Contains("NAVIGATION", t) THEN "navigation"
             ELSE IF Contains("HELP", t) THEN "help"
             ELSE IF Contains("VISUALIZATION", t) THEN "visualization"
             ELSE IF Contains("ANALYTICS", t) THEN "analytics"
             ELSE IF Contains("CHAT", t) THEN "help"
             ELSE NoIntent

\* Stage 2 (lines 230-290): the generative call inside try/except.  A raised
\* call, or a response without text (None.strip() raises), is caught and
\* falls through, as does a text naming no category.
LLMStage(o) ==
    IF o.kind # "text" THEN NoIntent
    ELSE LET t == Upper(Strip(o.text))
         IN  IF Contains("NAVIGATION", t) THEN "navigation"
             ELSE IF Contains("HELP", t) THEN "help"
             ELSE IF Contains("VISUALIZATION", t) THEN "visualization"
             ELSE IF Contains("ANALYTICS", t) THEN "analytics"
             ELSE IF Contains("CHAT", t) THEN "help"
             ELSE NoIntent

\* KeywordStage accepting a target term or an action verb alone
KeywordStage_NavOr(ql) ==
    IF AnyIn(help_patterns, ql) THEN "help"
    ELSE IF AnyIn(strong_nav_terms, ql) \/ AnyIn(nav_verbs, ql) THEN "navigation"
    ELSE IF CountIn(ANALYTICS_KEYWORDS, ql) > 0 THEN "analytics"
    ELSE "help"

\* Stage 3 (lines 292-315): keyword fallback.
KeywordStage(ql) ==
    IF AnyIn(help_patterns, ql) THEN "help"
    ELSE IF AnyIn(strong_nav_terms, ql) /\ AnyIn(nav_verbs, ql) THEN "navigation"
    ELSE IF CountIn(ANALYTICS_KEYWORDS, ql) > 0 THEN "analytics"
    ELSE "help"

\* classify_intent as one function of its inputs and the backend's behaviour
ClassifyIntent(q, em, o) ==
    LET ql == Lower(q)
        f  == FastPath(ql, em)
        l  == LLMStage(o)
    IN  IF f # NoIntent THEN f
        ELSE IF l # NoIntent THEN l
        ELSE KeywordStage(ql)

(***************************************************************************)
(* Semantic retrieval: boost_score and search_documents.                   *)
(* Scores are in hundredths: 0.02 is 2 and 0.05 is 5.                      *)
(***************************************************************************)
BOOST_TERMS == << "kpi", "dashboard", "visualization", "metrics", "summary",
                  "trend", "table", "shipment" >>

CUBE_TERMS == << "rate cube", "audit cube", "admin cube", "track cube" >>

KeywordBoostStep == 2
CubeBoost == 5
DefaultTopK == 3

\* sum(1 for term in BOOST_TERMS if term in content and term in query) * 0.02
KeywordBoost(content, ql) ==
    Cardinality({k \in 1..Len(BOOST_TERMS) :
                    Contains(BOOST_TERMS[k], content)
                    /\ Contains(BOOST_TERMS[k], ql)}) * KeywordBoostStep

\* 0.05 if any(cube in query and cube in doc cube) else 0
CubeBoostOf(cube, ql) ==
    IF \E k \in 1..Len(CUBE_TERMS) :
            Contains(CUBE_TERMS[k], ql) /\ Contains(CUBE_TERMS[k], cube)
    THEN CubeBoost ELSE 0

\* boost_score (lines 118-123); the three lower-cased texts are bound once
BoostScore(score, doc, q) ==
    CHOOSE boosted \in
        { score + KeywordBoost(content, ql) + CubeBoostOf(cube, ql) :
            content \in { Lower(doc.section_title \o " " \o doc.content) },
            ql      \in { Lower(q) },
            cube    \in { Lower(doc.cube) } } : TRUE

\* the filter looking at the section title only
UnderConstruction_TitleOnly(doc) ==
    Contains("under construction", Lower(doc.section_title))

\* the 'under construction' filter of the first pass (lines 131-134)
UnderConstruction(doc) ==
    \/ Contains("under construction", Lower(doc.section_title))
    \/ Contains("under construction", Lower(doc.content))

\* (boosted, doc) for the documents at the given indices, in index order
RECURSIVE ScoreAll(_, _, _, _)
ScoreAll(idx, docs, sm, q) ==
    IF idx = << >> THEN << >>
    ELSE << [score |-> BoostScore(sm[Head(idx)], docs[Head(idx)], q),
             doc   |-> Head(idx)] >> \o ScoreAll(Tail(idx), docs, sm, q)

RECURSIVE KeptIndices(_, _)
KeptIndices(docs, i) ==
    IF i > Len(docs) THEN << >>
    ELSE (IF UnderConstruction(docs[i]) THEN << >> ELSE << i >>)
         \o KeptIndices(docs, i + 1)

\* scored_docs before sorting (lines 128-143): the filtered pass, or every
\* document when the filter leaves nothing
ScoredDocs(docs, sm, q) ==
    LET kept == KeptIndices(docs, 1)
    IN  IF kept # << >> THEN ScoreAll(kept, docs, sm, q)
        ELSE ScoreAll([i \in 1..Len(docs) |-> i], docs, sm, q)

\* insert x behind every element whose score is at least x's
RECURSIVE InsertDesc(_, _)
InsertDesc(sorted, x) ==
    IF sorted = << >> THEN << x >>
    ELSE IF Head(sorted).score >= x.score
         THEN << Head(sorted) >> \o InsertDesc(Tail(sorted), x)
         ELSE << x >> \o sorted

\* a descending sort that is not stable: equal scores come out reversed
RECURSIVE SortedDesc_Unstable(_)
SortedDesc_Unstable(seq) ==
    IF seq = << >> THEN << >>
    ELSE LET rest == SortedDesc_Unstable(SubSeq(seq, 1, Len(seq) - 1))
             x    == seq[Len(seq)]
             RECURSIVE Ins(_)
             Ins(sorted) ==
                 IF sorted = << >> THEN << x >>
                 ELSE IF Head(sorted).score > x.score
                      THEN << Head(sorted) >> \o Ins(Tail(sorted))
                      ELSE << x >> \o sorted
         IN  Ins(rest)

\* sorted(scored_docs, key=lambda x: x[0], reverse=True) (line 144): stable
RECURSIVE SortedDesc(_)
SortedDesc(seq) ==
    IF seq = << >> THEN << >>
    ELSE InsertDesc(SortedDesc(SubSeq(seq, 1, Len(seq) - 1)), seq[Len(seq)])

\* ranked[:top_k] for top_k >= 0 (line 145)
Prefix(seq, k) == SubSeq(seq, 1, IF k < Len(seq) THEN k ELSE Len(seq))

\* search_documents once the embedding call has returned
SearchDocuments(docs, sm, q, k) == Prefix(SortedDesc(ScoredDocs(docs, sm, q)), k)

(***************************************************************************)
(* Inputs of the retriever.                                                *)
(***************************************************************************)
MaxDocs == 3

DocKinds == {
    [section_title |-> "Rate Dashboard", content |-> "KPI summary",
     cube |-> "Rate Cube"],
    [section_title |-> "Under Construction", content |-> "coming soon",
     cube |-> ""],
    [section_title |-> "Audit", content |-> "UNDER CONSTRUCTION!",
     cube |-> "Audit Cube"],
    [section_title |-> "Tracking", content |-> "track a shipment",
     cube |-> ""] }

SimValues == { 50, 52 }

SearchQueries == { "shipment KPI", "rate cube dashboard" }

TopKs == 1..DefaultTopK

SeqsUpTo(S, n) == UNION { [1..m -> S] : m \in 0..n }

\* no call of chunk_text is made; spans holds, for each chunk appended, the
\* slice text[start:end] it was cut from
NoChunking == [pc |-> "idle", text |-> "", size |-> 0, overlap |-> 0, start |-> 0,
               chunks |-> << >>, spans |-> << >>]

SearchIdle ==
    /\ chunker = NoChunking
    /\ documents = << >>
    /\ sims = << >>
    /\ s_query = ""
    /\ top_k = DefaultTopK
    /\ s_pc = "idle"
    /\ s_result = << >>

(***************************************************************************)
(* handle_query: helpers.                                                  *)
(***************************************************************************)
greeting_keywords == << "hi", "hello", "hey", "good morning", "good afternoon",
                        "good evening" >>

InList(x, list) == \E k \in 1..Len(list) : list[k] = x

clear_targets == << "this", "these results", "the above", "the chart",
                    "the data", "the report", "the summary", "what we discussed" >>

ContextThreshold == 50

\* should_ask_email_context (lines 317-339)
ShouldAskEmailContext(q, last_response) ==
    LET has_clear_target == AnyIn(clear_targets, Lower(q))
    IN  IF last_response # "" /\ Len(last_response) > ContextThreshold THEN FALSE
        ELSE IF ~has_clear_target /\ last_response = "" THEN TRUE
        ELSE FALSE

\* build_context (lines 148-155); the documents carry no source_url
RECURSIVE BuildContext(_)
BuildContext(docs) ==
    IF docs = << >> THEN ""
    ELSE ("Section: " \o Head(docs).section_title \o "\nURL: "
            \o "\nContent: " \o Head(docs).content)
         \o (IF Tail(docs) = << >> THEN "" ELSE "\n\n" \o BuildContext(Tail(docs)))

\* fallback_models (line 974)
FallbackModels(cm) == << cm, "gemini-2.0-flash", "models/gemini-flash-latest" >>

NoChat == [id |-> 0, model |-> "", history |-> << >>]

\* genai_client.chats.create(model=..., history=...)
NewChat(id, model, hist) == [id |-> id, model |-> model, history |-> hist]

\* gemini_history[:-1] if gemini_history else []
AllButLast(h) == IF h = << >> THEN << >> ELSE SubSeq(h, 1, Len(h) - 1)

\* conversion of the messages to backend format (lines 989-996)
RECURSIVE GeminiHistory(_)
GeminiHistory(messages) ==
    IF messages = << >> THEN << >>
    ELSE (IF Head(messages).role = "user"
            THEN << [role |-> "user", text |-> Head(messages).content] >>
          ELSE IF Head(messages).role = "assistant"
            THEN << [role |-> "model", text |-> Head(messages).content] >>
          ELSE << >>)
         \o GeminiHistory(Tail(messages))

TextMessage(t) == [kind |-> "text", text |-> t, parts |-> << >>]

FunctionResponses(parts) == [kind |-> "function_response", text |-> "", parts |-> parts]

\* is_func_response (line 1025)
IsFuncResponse(m) == m.kind = "function_response" /\ Len(m.parts) > 0

\* final_user_msg (line 1029)
FinalUserMsg(gh, um) == IF gh # << >> THEN gh[Len(gh)].text ELSE um

\* the session is recreated only when none exists
NeedsNewSession_OnlyWhenNone(model_name, cur, c) == c = NoChat

\* line 1015
NeedsNewSession(model_name, cur, c) == model_name # cur \/ c = NoChat

\* what an attempt transmits (lines 1027-1032)
Payload(msg, model_name, models, gh, um) ==
    IF IsFuncResponse(msg) /\ model_name # models[1]
    THEN TextMessage(FinalUserMsg(gh, um))
    ELSE msg

\* the except clause keeping the failed session
SessionAfterFailure_Kept(c) == c

\* chat = None in the except clause (line 1040)
SessionAfterFailure(c) == NoChat

NoError == [type |-> "none", message |-> ""]

NoResponse == [present |-> FALSE, fn_calls |-> << >>, text |-> ""]

NoHttp == [status |-> 0, reply |-> ""]

QuotaReply == "Oops. I am out of fuel! Tell your Developer to refuel me!"

GenericErrorReply ==
    "System Error: Something went wrong. I have logged the error for the developers to fix."

OverloadedReply ==
    "System Overloaded: I am receiving too many requests right now. Please wait a minute and try again."

\* the outer except clauses (lines 1338-1354), by exception type name
ErrorResponse(e) ==
    IF Contains("ResourceExhausted", e.type)
    THEN [status |-> 429, reply |-> QuotaReply]
    ELSE [status |-> 200, reply |-> GenericErrorReply]

\* the retrieval call of the help branch without its try/except
RetrieveOutcome_Uncaught(ok, docs, sm, q) ==
    IF ok THEN [escaped |-> FALSE, docs |-> SearchDocuments(docs, sm, q, DefaultTopK)]
    ELSE [escaped |-> TRUE, docs |-> << >>]

\* lines 633-637: search_documents(query, top_k=3) or [], inside try/except
RetrieveOutcome(ok, docs, sm, q) ==
    IF ok THEN [escaped |-> FALSE, docs |-> SearchDocuments(docs, sm, q, DefaultTopK)]
    ELSE [escaped |-> FALSE, docs |-> << >>]

(***************************************************************************)
(* The tools of the agent loop (src/analytics_tools.py) and their dispatch *)
(* in handle_query (src/main.py lines 1061-1154).                          *)
(***************************************************************************)
(***************************************************************************)
(* The tools of src/analytics_tools.py as the agent loop calls them.       *)
(* A tool either returns a text or raises.                                 *)
(***************************************************************************)
Digits == "0123456789"

StringChars(s) == { CharAt(s, i) : i \in 1..Len(s) }

\* the characters of the regular-expression class \w
WordChars == StringChars(UpperAlphabet) \cup StringChars(LowerAlphabet)
             \cup StringChars(Digits) \cup { "_" }

IsWordChar(c) == c \in WordChars

\* str.isalnum
IsAlnum(c) == c \in (WordChars \ { "_" })

StartsWith(p, s) == Len(s) >= Len(p) /\ SubSeq(s, 1, Len(p)) = p

\* re.search(r"\d", s)
HasDigit(s) == \E i \in 1..Len(s) : CharAt(s, i) \in StringChars(Digits)

Returned(text) == [raised |-> FALSE, error |-> NoError, result |-> text]

Raises(type, message) ==
    [raised |-> TRUE, error |-> [type |-> type, message |-> message], result |-> ""]

NoArgs == [k \in {} |-> ""]

\* args.get(key, default)
Get(args, key, default) == IF key \in DOMAIN args THEN args[key] ELSE default

\* _READ_ONLY_PATTERN.match(sql): ^\s*select\b, ignoring case
MatchesReadOnly(sql) ==
    LET s == Lower(LStrip(sql))
    IN  /\ StartsWith("select", s)
        /\ (Len(s) = Len("select") \/ ~IsWordChar(CharAt(s, Len("select") + 1)))

\* re.search(r"\bw\b", s)
ContainsWord(w, s) ==
    \E i \in 1..(Len(s) - Len(w) + 1) :
        /\ SubSeq(s, i, i + Len(w) - 1) = w
        /\ (i = 1 \/ ~IsWordChar(CharAt(s, i - 1)))
        /\ (i + Len(w) - 1 = Len(s) \/ ~IsWordChar(CharAt(s, i + Len(w))))

DISALLOWED_WORDS == << "drop", "delete", "update", "insert", "alter", "truncate" >>

\* _DISALLOWED_PATTERN.search(sql), ignoring case
MatchesDisallowed(sql) ==
    \E k \in 1..Len(DISALLOWED_WORDS) : ContainsWord(DISALLOWED_WORDS[k], Lower(sql))

\* _validate_sql: the message of the ValueError it raises, "" when it returns
ValidateSql(sql) ==
    IF ~MatchesReadOnly(sql) THEN "Only SELECT statements are permitted."
    ELSE IF MatchesDisallowed(sql) THEN "Dangerous keyword detected; query rejected."
    ELSE ""

\* what the data store answers to a read-only query
RowsJson == "[{\"n\":3}]"

NoRowsJson == "[{\"notice\":\"no_rows\"}]"

\* sql_tool: validation, then the query executor
SqlTool(sql) ==
    IF ValidateSql(sql) # "" THEN Raises("ValueError", ValidateSql(sql))
    ELSE Returned(RowsJson)

\* json.dumps of a text: quotes and backslashes are escaped
RECURSIVE JsonEscape(_)
JsonEscape(s) ==
    IF Len(s) = 0 THEN ""
    ELSE IF Len(s) = 1
    THEN (IF s = "\"" THEN "\\\""
          ELSE IF s = "\\" THEN "\\\\"
          ELSE IF s = "\n" THEN "\\n"
          ELSE s)
    ELSE JsonEscape(SubSeq(s, 1, Len(s) \div 2))
         \o JsonEscape(SubSeq(s, (Len(s) \div 2) + 1, Len(s)))

JsonString(s) == "\"" \o JsonEscape(s) \o "\""

\* json.dumps of a list of texts
RECURSIVE JsonItems(_)
JsonItems(list) ==
    IF list = << >> THEN ""
    ELSE JsonString(Head(list))
         \o (IF Tail(list) = << >> THEN "" ELSE ", " \o JsonItems(Tail(list)))

JsonList(list) == "[" \o JsonItems(list) \o "]"

\* multi_sql_tool: every query is validated and run in turn; the first
\* rejected query raises
RECURSIVE MultiSqlTool(_)
MultiSqlTool(queries) ==
    IF queries = << >> THEN [raised |-> FALSE, error |-> NoError, result |-> << >>]
    ELSE LET first == SqlTool(Head(queries))
             rest  == MultiSqlTool(Tail(queries))
         IN  IF first.raised THEN [first EXCEPT !.result = << >>]
             ELSE IF rest.raised THEN rest
             ELSE [raised |-> FALSE, error |-> NoError,
                   result |-> << first.result >> \o rest.result]

PercentJson == "{\"numerator\": 3.0, \"denominator\": 3.0, \"percent\": 100.0}"

\* percentage_tool: two sql_tool calls
PercentageTool(numerator_sql, denominator_sql) ==
    IF SqlTool(numerator_sql).raised THEN SqlTool(numerator_sql)
    ELSE IF SqlTool(denominator_sql).raised THEN SqlTool(denominator_sql)
    ELSE Returned(PercentJson)

\* the n-th generated chart file (uuid4().hex in the code)
ChartRef(n) == "/static/demo/c" \o CharAt(Digits, n + 1) \o ".html"

\* the markup chart_tool returns (lines 188-194)
ChartSnippet(ref) ==
    "<iframe src=\"" \o ref \o "\"></iframe><a href=\"" \o ref
    \o "\">View Full Screen</a><!-- chart_html:" \o ref \o " -->"

\* chart_tool: env says what the data store and the renderer do
ChartTool(sql, env, ref) ==
    IF ValidateSql(sql) # "" THEN Raises("ValueError", ValidateSql(sql))
    ELSE IF env = "no_rows" THEN Returned(NoRowsJson)
    ELSE IF env = "render_fails"
         THEN Raises("ValueError", "Chart generation failed: disk full")
    ELSE Returned(ChartSnippet(ref))

\* the chart call without the try/except around it
ChartCall_Uncaught(args, env, ref) == ChartTool(Get(args, "sql", ""), env, ref)

\* lines 1079-1089: chart_tool inside try/except
ChartCall(args, env, ref) ==
    LET r == ChartTool(Get(args, "sql", ""), env, ref)
    IN  IF r.raised
        THEN Returned("Sorry, I couldn't generate that chart: " \o r.error.message)
        ELSE r

\* whether a tool result is chart markup (line 1090)
IsChartMarkup(result) ==
    Contains("<iframe", result) \/ Contains("<img", result) \/ Contains("![", result)

ChartPathPrefix == "/static/demo/"

\* length of the shortest match of /static/demo/\S+?\.html at position i of
\* s, 0 when there is none
ChartRefMatch(s, i) ==
    IF i + Len(ChartPathPrefix) - 1 > Len(s)
       \/ SubSeq(s, i, i + Len(ChartPathPrefix) - 1) # ChartPathPrefix
    THEN 0
    ELSE LET ends == { m \in (i + Len(ChartPathPrefix) + Len(".html"))..Len(s) :
                         /\ SubSeq(s, m - Len(".html") + 1, m) = ".html"
                         /\ \A j \in (i + Len(ChartPathPrefix))..m :
                                ~IsSpace(CharAt(s, j)) }
         IN  IF ends # {} THEN (CHOOSE m \in ends : \A n \in ends : m <= n) - i + 1
             ELSE 0

\* re.findall(lead + r"(/static/demo/\S+?\.html)", s) from position i on:
\* the leftmost match, then the matches of what follows it
RECURSIVE FindChartRefs(_, _, _)
FindChartRefs(s, lead, i) ==
    LET starts == { k \in i..(Len(s) - Len(lead)) :
                      /\ SubSeq(s, k, k + Len(lead) - 1) = lead
                      /\ ChartRefMatch(s, k + Len(lead)) > 0 }
    IN  IF starts = {} THEN << >>
        ELSE LET k == CHOOSE a \in starts : \A b \in starts : a <= b
                 n == ChartRefMatch(s, k + Len(lead))
             IN  << SubSeq(s, k + Len(lead), k + Len(lead) + n - 1) >>
                 \o FindChartRefs(s, lead, k + Len(lead) + n)

ToSet(seq) == { seq[i] : i \in 1..Len(seq) }

\* list(set(...)): the elements once each, in an order the language leaves
\* open (it depends on the hash seed of the process)
RECURSIVE Orderings(_)
Orderings(S) ==
    IF S = {} THEN { << >> }
    ELSE UNION { { << x >> \o p : p \in Orderings(S \ {x}) } : x \in S }

\* LAST_CHARTS[-5:]
ChartCapacity == 5

LastN(seq, n) == IF Len(seq) > n THEN SubSeq(seq, Len(seq) - n + 1, Len(seq)) ELSE seq

\* the UserProfile table: user name to e-mail address
UserProfile == [ kangadi |-> "kangadi@tcube360.com" ]

\* _emails_for_usernames: addresses are kept, user names are looked up
RECURSIVE DirectEmails(_)
DirectEmails(usernames) ==
    IF usernames = << >> THEN << >>
    ELSE (IF Contains("@", Head(usernames)) THEN << Head(usernames) >> ELSE << >>)
         \o DirectEmails(Tail(usernames))

RECURSIVE LookedUpEmails(_)
LookedUpEmails(usernames) ==
    IF usernames = << >> THEN << >>
    ELSE (IF ~Contains("@", Head(usernames))
             /\ Lower(Head(usernames)) \in DOMAIN UserProfile
          THEN << UserProfile[Lower(Head(usernames))] >> ELSE << >>)
         \o LookedUpEmails(Tail(usernames))

\* {e.lower(): e for e in results}.values(): one entry per lower-cased
\* address, at the position of its first occurrence, spelled as its last
RECURSIVE DedupEmails(_)
DedupEmails(list) ==
    IF list = << >> THEN << >>
    ELSE LET same == { i \in 1..Len(list) : Lower(list[i]) = Lower(Head(list)) }
             last == CHOOSE i \in same : \A j \in same : j <= i
             rest == SelectSeq(Tail(list), LAMBDA e : Lower(e) # Lower(Head(list)))
         IN  << list[last] >> \o DedupEmails(rest)

EmailsForUsernames(usernames) ==
    DedupEmails(DirectEmails(usernames) \o LookedUpEmails(usernames))

RECURSIVE JoinWith(_, _)
JoinWith(list, sep) ==
    IF list = << >> THEN ""
    ELSE Head(list) \o (IF Tail(list) = << >> THEN ""
                        ELSE sep \o JoinWith(Tail(list), sep))

NoRecipientsResult ==
    "Error: No valid recipients found. Please provide a valid email address."

\* draft_email_tool and mail_tool, as seen by their caller: without a
\* recipient nothing is transmitted; an SMTP failure is reported in the text
\* returned (analytics_tools.py lines 553-556, 677-693, 701-704, 801-816)
SendMail(to_usernames, smtp) ==
    LET recipients == EmailsForUsernames(to_usernames)
    IN  IF recipients = << >> THEN Returned(NoRecipientsResult)
        ELSE IF smtp = "fails"
             THEN Returned("[ERROR] Error sending email: Connection refused")
        ELSE Returned("[OK] Email sent successfully to "
                      \o JoinWith(recipients, ", ") \o "!")

\* body_md of an e-mail call (lines 1113 and 1122-1124)
EmailBody(args, last_body) ==
    LET given   == Get(args, "body_markdown", "")
        body_md == IF given # "" THEN given ELSE last_body
    IN  IF ~HasDigit(body_md) /\ HasDigit(last_body)
        THEN Strip(body_md \o "\n\nRecent results:\n" \o last_body)
        ELSE body_md

\* the attachments of the call alone
EmailAttachments_ExplicitOnly(args, charts) ==
    ToSet(Get(args, "attachments", << >>))

\* attach of an e-mail call (lines 1116-1118), as a set
EmailAttachments(args, charts) ==
    ToSet(Get(args, "attachments", << >>)) \cup ToSet(charts)

\* what an e-mail call hands to the mail collaborator
MailOf(tool, args, last_body, charts, smtp) ==
    [ tool        |-> tool,
      to          |-> Get(args, "to_usernames", << >>),
      subject     |-> Get(args, "subject", "Assistance Summary"),
      body        |-> IF tool = "draft_email_tool"
                      THEN EmailBody(args, last_body)
                      ELSE (IF Get(args, "body_markdown", "") # ""
                            THEN Get(args, "body_markdown", "") ELSE last_body),
      attachments |-> EmailAttachments(args, charts),
      result      |-> SendMail(Get(args, "to_usernames", << >>), smtp).result ]

\* navigation_routes.json
Routes == <<
    [ id |-> "rate-calculator", name |-> "Rate Calculator",
      url |-> "http://dev.tcube360.com/#/rate-calculator",
      keywords |-> << "rate calculator", "calculate rates" >> ],
    [ id |-> "dispute-management", name |-> "Dispute Management",
      url |-> "http://dev.tcube360.com/#/dispute-management",
      keywords |-> << "dispute management", "disputes" >> ] >>

\* the three tests navigate_tool makes on one route (lines 891-912)
RouteMatches(route, dest_lower) ==
    \/ \E k \in 1..Len(route.keywords) :
           \/ Contains(Lower(route.keywords[k]), dest_lower)
           \/ Contains(dest_lower, Lower(route.keywords[k]))
    \/ Contains(dest_lower, Lower(route.name))
    \/ Contains(Lower(route.name), dest_lower)
    \/ Contains(dest_lower, Lower(route.id))
    \/ Contains(Lower(route.id), dest_lower)

\* navigate_tool: the first matching route in configuration order
NavigateTool(destination) ==
    LET dest_lower == Strip(Lower(destination))
        hits       == { r \in 1..Len(Routes) : RouteMatches(Routes[r], dest_lower) }
    IN  IF hits # {}
        THEN LET route == Routes[CHOOSE r \in hits : \A q \in hits : r <= q]
             IN  "{\"action\": \"navigate\", \"url\": " \o JsonString(route.url)
                 \o ", \"name\": " \o JsonString(route.name)
                 \o ", \"description\": \"\", \"message\": "
                 \o JsonString("Opening " \o route.name \o "...") \o "}"
        ELSE "{\"action\": \"not_found\", \"message\": "
             \o JsonString("I couldn't find a page matching '" \o destination
                           \o "'. Available screens: "
                           \o JoinWith([r \in 1..Len(Routes) |-> Routes[r].name], ", "))
             \o ", \"available_routes\": "
             \o JsonList([r \in 1..Len(Routes) |-> Routes[r].name]) \o "}"

\* position of the first occurrence of p in s, 0 when there is none
IndexOf(p, s) ==
    LET at == { i \in 1..(Len(s) - Len(p) + 1) : SubSeq(s, i, i + Len(p) - 1) = p }
    IN  IF at = {} THEN 0 ELSE CHOOSE i \in at : \A j \in at : i <= j

\* json.loads(text).get(key) for a text member of a flat object whose values
\* hold no escaped quote; "" stands for None
JsonGet(text, key) ==
    LET opener == "\"" \o key \o "\": \""
        start  == IndexOf(opener, text)
    IN  IF start = 0 THEN ""
        ELSE LET rest == SubSeq(text, start + Len(opener), Len(text))
                 close == IndexOf("\"", rest)
             IN  IF close = 0 THEN "" ELSE SubSeq(rest, 1, close - 1)

\* navigation_url (lines 1160-1172)
NavigationUrl(nav_result) ==
    IF nav_result = "" THEN ""
    ELSE IF JsonGet(nav_result, "action") = "navigate" THEN JsonGet(nav_result, "url")
    ELSE ""

NavigationMarker(url) == "\n\n<!-- NAVIGATE_TO:" \o url \o " -->"

\* str.capitalize
Capitalize(s) ==
    IF s = "" THEN "" ELSE Upper(CharAt(s, 1)) \o Lower(SubSeq(s, 2, Len(s)))

\* update_dispute_status: without new_status the stored status is read
\* (int(None) raises) and toggled, the stored one being Open; an unknown
\* status raises; int(dispute_id) raises when the id is missing
UpdateDisputeStatus(args) ==
    LET dispute_id  == Get(args, "dispute_id", "")
        new_status  == Get(args, "new_status", "")
        status_norm == IF new_status = "" THEN "Closed"
                       ELSE Capitalize(Strip(new_status))
    IN  IF new_status = "" /\ dispute_id = ""
        THEN Raises("TypeError", "int() argument must be a string or a number")
        ELSE IF status_norm \notin { "Open", "Closed" }
        THEN Raises("ValueError", "new_status must be 'Open' or 'Closed'")
        ELSE IF dispute_id = ""
        THEN Raises("TypeError", "int() argument must be a string or a number")
        ELSE Returned(Lower(status_norm))

\* add_audit_comment
AddAuditComment(args) ==
    IF Get(args, "dispute_id", "") = ""
    THEN Raises("TypeError", "int() argument must be a string or a number")
    ELSE Returned("inserted")

(***************************************************************************)
(* The text the query executor receives (run_query of src/database.py):    *)
(* after _validate_sql the tools rewrite the text before they run it.      *)
(***************************************************************************)
\* str.replace(old, new): every occurrence, left to right
RECURSIVE Replace(_, _, _)
Replace(s, old, new) ==
    LET i == IndexOf(old, s)
    IN  IF i = 0 THEN s
        ELSE SubSeq(s, 1, i - 1) \o new
             \o Replace(SubSeq(s, i + Len(old), Len(s)), old, new)

\* _MACROS, in the order of the dictionary
MACROS == << [token |-> "{{CURRENT_YEAR}}", replacement |-> "YEAR(GETDATE())"],
             [token |-> "{{CURRENT_MONTH}}", replacement |-> "MONTH(GETDATE())"] >>

\* _expand_macros
ExpandMacros(sql) ==
    Replace(Replace(sql, MACROS[1].token, MACROS[1].replacement),
            MACROS[2].token, MACROS[2].replacement)

\* the number of characters of s from position i on that belong to chars
RunOf(s, i, chars) ==
    CHOOSE n \in 0..(Len(s) - i + 1) :
        /\ \A k \in i..(i + n - 1) : CharAt(s, k) \in chars
        /\ (i + n > Len(s) \/ CharAt(s, i + n) \notin chars)

\* the characters of the regular-expression class \s that occur in queries
SpaceChars == { " ", "\n", "\t" }

\* a match of word\s+ at position i of s, ignoring case: its length, 0 when
\* there is none
KeywordSpace(word, s, i) ==
    IF i + Len(word) > Len(s) THEN 0
    ELSE IF Lower(SubSeq(s, i, i + Len(word) - 1)) # word THEN 0
    ELSE LET ws == RunOf(s, i + Len(word), SpaceChars)
         IN  IF ws = 0 THEN 0 ELSE Len(word) + ws

\* a match of LIMIT\s+\d+ at position i of s, ignoring case: its length and
\* its group 1
LimitMatch(s, i) ==
    LET head == KeywordSpace("limit", s, i)
        dg   == IF head = 0 THEN 0 ELSE RunOf(s, i + head, StringChars(Digits))
    IN  IF dg = 0 THEN [len |-> 0, val |-> ""]
        ELSE [len |-> head + dg, val |-> SubSeq(s, i + head, i + head + dg - 1)]

\* the position of the leftmost match of LIMIT\s+\d+, 0 when there is none
FirstLimit(s) ==
    LET at == { i \in 1..Len(s) : LimitMatch(s, i).len > 0 }
    IN  IF at = {} THEN 0 ELSE CHOOSE i \in at : \A j \in at : i <= j

\* re.sub(r"LIMIT\s+\d+", "", s, flags=re.IGNORECASE)
RECURSIVE RemoveLimits(_)
RemoveLimits(s) ==
    LET i == FirstLimit(s)
    IN  IF i = 0 THEN s
        ELSE SubSeq(s, 1, i - 1)
             \o RemoveLimits(SubSeq(s, i + LimitMatch(s, i).len, Len(s)))

\* re.search(r"SELECT\s+TOP", s, re.IGNORECASE)
HasSelectTop(s) ==
    \E i \in 1..Len(s) :
        LET n == KeywordSpace("select", s, i)
        IN  /\ n > 0
            /\ i + n + Len("top") - 1 <= Len(s)
            /\ Lower(SubSeq(s, i + n, i + n + Len("top") - 1)) = "top"

\* re.sub(r"SELECT\s+", f"SELECT TOP {val} ", s, count=1, flags=re.IGNORECASE)
InsertTop(s, val) ==
    LET at == { i \in 1..Len(s) : KeywordSpace("select", s, i) > 0 }
    IN  IF at = {} THEN s
        ELSE LET i == CHOOSE a \in at : \A b \in at : a <= b
             IN  SubSeq(s, 1, i - 1) \o "SELECT TOP " \o val \o " "
                 \o SubSeq(s, i + KeywordSpace("select", s, i), Len(s))

\* _run_and_serialize without the rewriting of the LIMIT clause
AutoCorrect_Verbatim(q) == q

\* _run_and_serialize (lines 59-71): the text handed to run_query
AutoCorrect(q) ==
    LET i == FirstLimit(q)
    IN  IF i = 0 THEN q
        ELSE LET stripped == Strip(RemoveLimits(q))
             IN  IF HasSelectTop(stripped) THEN stripped
                 ELSE InsertTop(stripped, LimitMatch(q, i).val)

\* sql_tool: the texts it hands to run_query
SqlToolRuns(sql) ==
    IF ValidateSql(sql) # "" THEN << >> ELSE << AutoCorrect(ExpandMacros(sql)) >>

\* multi_sql_tool: the queries before the first rejected one are run
RECURSIVE MultiSqlToolRuns(_)
MultiSqlToolRuns(queries) ==
    IF queries = << >> \/ ValidateSql(Head(queries)) # "" THEN << >>
    ELSE SqlToolRuns(Head(queries)) \o MultiSqlToolRuns(Tail(queries))

\* percentage_tool: the numerator is run before the denominator is looked at
PercentageToolRuns(numerator_sql, denominator_sql) ==
    IF ValidateSql(numerator_sql) # "" THEN << >>
    ELSE SqlToolRuns(numerator_sql) \o SqlToolRuns(denominator_sql)

\* chart_tool (lines 102-105): run_query(_expand_macros(sql))
ChartToolRuns(sql) ==
    IF ValidateSql(sql) # "" THEN << >> ELSE << ExpandMacros(sql) >>

\* the texts one tool call hands to the query executor, in order
QueriesRun(call) ==
    LET args == call.arguments
    IN  IF call.name = "sql_tool" THEN SqlToolRuns(Get(args, "sql", ""))
        ELSE IF call.name = "multi_sql_tool"
        THEN MultiSqlToolRuns(Get(args, "queries", << >>))
        ELSE IF call.name = "percentage_tool"
        THEN PercentageToolRuns(Get(args, "numerator_sql", ""),
                                Get(args, "denominator_sql", ""))
        ELSE IF call.name = "chart_tool" THEN ChartToolRuns(Get(args, "sql", ""))
        ELSE << >>

\* functions_spec (lines 740-847): the tools declared to the backend
functions_spec == <<
    [ name |-> "sql_tool",              required |-> << "sql" >> ],
    [ name |-> "multi_sql_tool",        required |-> << "queries" >> ],
    [ name |-> "percentage_tool",
      required |-> << "numerator_sql", "denominator_sql" >> ],
    [ name |-> "chart_tool",            required |-> << "sql", "chart_type", "x", "y" >> ],
    [ name |-> "update_dispute_status", required |-> << "dispute_id", "changed_by" >> ],
    [ name |-> "add_audit_comment",     required |-> << "dispute_id", "comments" >> ],
    [ name |-> "draft_email_tool",
      required |-> << "to_usernames", "subject", "body_markdown" >> ],
    [ name |-> "navigate_tool",         required |-> << "destination" >> ] >>

DeclaredTools == { functions_spec[i].name : i \in 1..Len(functions_spec) }

UnsupportedResult == "Unsupported function"

\* what the environment of one tool call can do
ToolEnvs(name) ==
    IF name = "chart_tool" THEN { "ok", "no_rows", "render_fails" }
    ELSE IF name \in { "draft_email_tool", "mail_tool" } THEN { "ok", "fails" }
    ELSE { "ok" }

\* the if/elif chain of the agent loop (lines 1070-1141): the outcome of one
\* tool call
Dispatch(call, env, ref, last_body, charts) ==
    LET args == call.arguments
    IN  IF call.name = "sql_tool" THEN SqlTool(Get(args, "sql", ""))
        ELSE IF call.name = "multi_sql_tool"
        THEN LET r == MultiSqlTool(Get(args, "queries", << >>))
             IN  IF r.raised THEN Raises(r.error.type, r.error.message)
                 ELSE Returned(JsonList(r.result))
        ELSE IF call.name = "percentage_tool"
        THEN PercentageTool(Get(args, "numerator_sql", ""),
                            Get(args, "denominator_sql", ""))
        ELSE IF call.name = "chart_tool" THEN ChartCall(args, env, ref)
        ELSE IF call.name = "update_dispute_status" THEN UpdateDisputeStatus(args)
        ELSE IF call.name = "add_audit_comment" THEN AddAuditComment(args)
        ELSE IF call.name = "draft_email_tool"
        THEN Returned(MailOf("draft_email_tool", args, last_body, charts, env).result)
        ELSE IF call.name = "mail_tool"
        THEN Returned(MailOf("mail_tool", args, last_body, charts, env).result)
        ELSE IF call.name = "navigate_tool"
        THEN Returned(NavigateTool(Get(args, "destination", "")))
        ELSE Returned(UnsupportedResult)

\* the batch with the newest result placed first
AppendResponse_Prepend(batch, name, result) ==
    << [name |-> name, result |-> result] >> \o batch

\* function_responses.append(Part.from_function_response(...)) (lines 1145-1150)
AppendResponse(batch, name, result) ==
    Append(batch, [name |-> name, result |-> result])

\* a loop that stops asking for tools after its first round
LoopContinues_Capped(r, n) == r.fn_calls # << >> /\ n < 1

\* if fn_calls: (line 1061); n is the number of rounds already made
LoopContinues(r, n) == r.fn_calls # << >>

(***************************************************************************)
(* Approval and rejection of a pending draft (lines 899-949, 1214-1255).   *)
(***************************************************************************)
approval_tokens == { "approve", "approved", "yes", "send", "proceed", "sure",
                     "ok", "okay", "confirm", "right", "go", "do", "please" }

rejection_phrases == << "reject", "rejected", "no", "cancel", "don't send" >>

help_approval_phrases == << "approve", "approved", "yes", "send", "send it" >>

\* "".join(c for c in s if c.isalnum() or c.isspace())
RECURSIVE QueryClean(_)
QueryClean(s) ==
    IF Len(s) = 0 THEN ""
    ELSE IF Len(s) = 1 THEN (IF IsAlnum(s) \/ IsSpace(s) THEN s ELSE "")
    ELSE QueryClean(SubSeq(s, 1, Len(s) \div 2))
         \o QueryClean(SubSeq(s, (Len(s) \div 2) + 1, Len(s)))

\* set(s.split()); w is the word being read
RECURSIVE SplitWords(_, _)
SplitWords(s, w) ==
    IF Len(s) = 0 THEN (IF w = "" THEN {} ELSE { w })
    ELSE IF IsSpace(CharAt(s, 1))
         THEN (IF w = "" THEN {} ELSE { w }) \cup SplitWords(SubSeq(s, 2, Len(s)), "")
         ELSE SplitWords(SubSeq(s, 2, Len(s)), w \o CharAt(s, 1))

\* is_approved (lines 902-909)
IsApproved(q) ==
    LET query_clean == QueryClean(Strip(Lower(q)))
    IN  \/ SplitWords(query_clean, "") \cap approval_tokens # {}
        \/ Contains("go ahead", query_clean)
        \/ Contains("send it", query_clean)

\* the rejection test (line 941)
IsRejected(q) ==
    \/ InList(Strip(Lower(q)), rejection_phrases)
    \/ Contains("don't", Strip(Lower(q)))

SessionId == "default"

NoDrafts == [k \in {} |-> << >>]

HasDraft(drafts) == SessionId \in DOMAIN drafts

\* del EMAIL_DRAFTS[session_id]
WithoutDraft(drafts) == [k \in (DOMAIN drafts) \ { SessionId } |-> drafts[k]]

SentReply == "Email has been sent successfully!"

CancelledReply == "Email draft has been cancelled."

NoDraftReply == "No email draft found to approve."

\* lines 934-937
ApprovalReply(result) ==
    IF Contains("[OK]", result) \/ Contains("successfully", Lower(result))
    THEN SentReply
    ELSE "Error sending email: " \o result

\* the draft mailed without its attachments
MailOfDraft_NoAttachments(draft, smtp) ==
    [ tool        |-> "mail_tool",
      to          |-> draft.recipients,
      subject     |-> draft.subject,
      body        |-> draft.body,
      attachments |-> {},
      result      |-> SendMail(draft.recipients, smtp).result ]

\* what mail_tool is handed when a draft is approved (lines 923-928)
MailOfDraft(draft, smtp) ==
    [ tool        |-> "mail_tool",
      to          |-> draft.recipients,
      subject     |-> draft.subject,
      body        |-> draft.body,
      attachments |-> ToSet(draft.attachments),
      result      |-> SendMail(draft.recipients, smtp).result ]

\* the direct approval endpoint's reply (lines 552-555)
EndpointReply(result) ==
    IF result = "sent" THEN SentReply ELSE "Error sending email: " \o result

\* the requests made to POST /api/approve-email, numbered as they arrive
MaxApprovals == 2

\* body.get("session_id", "default") of such a request
ApproveSessionIds == { "default", "other" }

\* draft_data and mail hold at most one element
NoApproval == [pc |-> "idle", session_id |-> "", draft_data |-> << >>,
               mail |-> << >>, http |-> [status |-> 0, reply |-> ""]]

NoApprovals == [r \in 1..MaxApprovals |-> NoApproval]

\* the help branch's test on user_message (lines 1215-1248)
HelpInterception(um) ==
    IF InList(Strip(Lower(um)), help_approval_phrases) THEN "approve"
    ELSE IF InList(Strip(Lower(um)), rejection_phrases) THEN "reject"
    ELSE "none"

(***************************************************************************)
(* The final answer (lines 1156-1209).                                     *)
(***************************************************************************)
\* the final reply left without its marker
ReplyWithMarker_NoMarker(text, url) == text

\* final_reply after the navigation marker was appended (lines 1175-1177)
ReplyWithMarker(text, url) == IF url # "" THEN text \o NavigationMarker(url) ELSE text

\* line 1199
NeedsChartPrepend(snippet, final_reply) == snippet # "" /\ ~IsChartMarkup(final_reply)

\* lines 1199-1201
ReplyWithChart(snippet, final_reply) ==
    IF NeedsChartPrepend(snippet, final_reply)
    THEN snippet \o "\n\n" \o final_reply
    ELSE final_reply

\* LAST_CHARTS after a successful chart call (lines 1094-1095)
ChartsAfterCall(charts, result) ==
    Orderings(ToSet(charts) \cup ToSet(FindChartRefs(result, "", 1)))

\* LAST_CHARTS at the final answer (lines 1182-1196)
ChartsAtFinalAnswer(charts, snippet) ==
    { LastN(c, ChartCapacity) :
        c \in IF snippet # ""
              THEN Orderings(ToSet(FindChartRefs(snippet, "", 1))
                             \cup ToSet(FindChartRefs(snippet, "chart_html:", 1)))
              ELSE { charts } }

loopVars == <<chat, current_model_name, current_message, model_idx, response,
              last_error, attempts, rounds, sessions_created, processed>>

convVars == <<context, user_message, gemini_history>>

\* the locals of the tool-execution branch and the logs kept of it
toolVars == <<last_chart_snippet, navigation_result, function_responses,
              executed, mails>>

\* the module globals of main.py, and the log of the chart files written
globalVars == <<LAST_BODY, LAST_CHARTS, EMAIL_DRAFTS, chart_log>>

\* what a request is given and does not change while it is handled
fixedVars == <<chat_model, turns, t_query, conversation_history>>

TurnIdle ==
    /\ chat_model = "gemini-1.5-flash"
    /\ LAST_BODY = ""
    /\ LAST_CHARTS = << >>
    /\ EMAIL_DRAFTS = NoDrafts
    /\ chart_log = << >>
    /\ turns = 0
    /\ t_pc = "off"
    /\ t_query = ""
    /\ mode = "help"
    /\ conversation_history = << >>
    /\ detected_intent = NoIntent
    /\ top_docs = << >>
    /\ embed_failed = FALSE
    /\ context = ""
    /\ user_message = ""
    /\ gemini_history = << >>
    /\ chat = NoChat
    /\ current_model_name = ""
    /\ current_message = TextMessage("")
    /\ model_idx = 1
    /\ response = NoResponse
    /\ last_error = NoError
    /\ attempts = << >>
    /\ rounds = 0
    /\ sessions_created = 0
    /\ processed = 0
    /\ help_sends = 0
    /\ chat_sends = 0
    /\ intercept = "none"
    /\ last_chart_snippet = ""
    /\ navigation_result = ""
    /\ function_responses = << >>
    /\ executed = << >>
    /\ mails = << >>
    /\ raised = NoError
    /\ http = NoHttp
    /\ navigation_url = ""
    /\ approve_reqs = NoApprovals

(***************************************************************************)
(* Inputs of the classifier.                                               *)
(***************************************************************************)
Vocabulary == { "Send me", "email this", "Email me", "chart", "Plot",
                "open", "Rate Calculator", "settings", "what is",
                "how many", "shipments", "cargo", "hello" }

Queries == Vocabulary \cup { a \o " " \o b : a \in Vocabulary, b \in Vocabulary }

Modes == { "auto", "help", "analytics" }

Histories == { << >>, << "user", "assistant" >>,
               << "user", "assistant", "user" >> }

LLMTexts == { "NAVIGATION", "help", " Analytics\n", "VISUALIZATION", "Chat",
              "HELP or NAVIGATION", "unsure", "" }

NoOutcome == [kind |-> "pending", text |-> ""]

LLMOutcomes == { [kind |-> "raise", text |-> ""], [kind |-> "none", text |-> ""] }
               \cup { [kind |-> "text", text |-> t] : t \in LLMTexts }

NoPrompt == [history_text |-> << >>, query |-> ""]

ClassifyIdle ==
    /\ query = ""
    /\ explicit_mode = "auto"
    /\ history = << >>
    /\ q_lower = ""
    /\ cl_pc = "idle"
    /\ intent = NoIntent
    /\ returned_by = "none"
    /\ llm_outcome = NoOutcome
    /\ llm_calls = 0
    /\ prompt = NoPrompt

InitClassify ==
    /\ query \in Queries
    /\ explicit_mode \in Modes
    /\ history \in Histories
    /\ q_lower = ""
    /\ cl_pc = "start"
    /\ intent = NoIntent
    /\ returned_by = "none"
    /\ llm_outcome = NoOutcome
    /\ llm_calls = 0
    /\ prompt = NoPrompt
    /\ SearchIdle
    /\ TurnIdle

\* lines 216-227
ClassifyFastPath ==
    /\ cl_pc = "start"
    /\ q_lower' = Lower(query)
    /\ LET r == FastPath(Lower(query), explicit_mode)
       IN  IF r # NoIntent
           THEN /\ intent' = r
                /\ returned_by' = "fast"
                /\ cl_pc' = "returned"
           ELSE /\ cl_pc' = "llm"
                /\ UNCHANGED <<intent, returned_by>>
    /\ UNCHANGED <<query, explicit_mode, history, llm_outcome, llm_calls, prompt>>
    /\ UNCHANGED <<searchVars, turnVars>>

\* lines 229-290
ClassifyLLM ==
    /\ cl_pc = "llm"
    /\ \E o \in LLMOutcomes :
        /\ llm_outcome' = o
        /\ llm_calls' = llm_calls + 1
        /\ prompt' = [history_text |-> HistoryText(history), query |-> query]
        /\ LET r == LLMStage(o)
           IN  IF r = Escaped
               THEN /\ cl_pc' = "raised"
                    /\ UNCHANGED <<intent, returned_by>>
               ELSE IF r # NoIntent
               THEN /\ intent' = r
                    /\ returned_by' = "llm"
                    /\ cl_pc' = "returned"
               ELSE /\ cl_pc' = "fallback"
                    /\ UNCHANGED <<intent, returned_by>>
    /\ UNCHANGED <<query, explicit_mode, history, q_lower>>
    /\ UNCHANGED <<searchVars, turnVars>>

\* lines 292-315
ClassifyKeywordFallback ==
    /\ cl_pc = "fallback"
    /\ intent' = KeywordStage(q_lower)
    /\ returned_by' = "keyword"
    /\ cl_pc' = "returned"
    /\ UNCHANGED <<query, explicit_mode, history, q_lower, llm_outcome,
                   llm_calls, prompt>>
    /\ UNCHANGED <<searchVars, turnVars>>

NextClassify ==
    \/ ClassifyFastPath
    \/ ClassifyLLM
    \/ ClassifyKeywordFallback

SpecClassify == InitClassify /\ [][NextClassify]_vars

InitSearch ==
    /\ documents \in SeqsUpTo(DocKinds, MaxDocs)
    /\ sims \in [1..Len(documents) -> SimValues]
    /\ s_query \in SearchQueries
    /\ top_k \in TopKs
    /\ s_pc = "embed"
    /\ s_result = << >>
    /\ chunker = NoChunking
    /\ ClassifyIdle
    /\ TurnIdle

\* get_embedding(query) raises (line 127): the exception leaves the function
SearchEmbeddingFails ==
    /\ s_pc = "embed"
    /\ s_pc' = "raised"
    /\ UNCHANGED <<documents, sims, s_query, top_k, s_result, chunker>>
    /\ UNCHANGED <<classifyVars, turnVars>>

\* get_embedding(query) returns; lines 128-145
SearchRank ==
    /\ s_pc = "embed"
    /\ s_result' = SearchDocuments(documents, sims, s_query, top_k)
    /\ s_pc' = "done"
    /\ UNCHANGED <<documents, sims, s_query, top_k, chunker>>
    /\ UNCHANGED <<classifyVars, turnVars>>

NextSearch ==
    \/ SearchEmbeddingFails
    \/ SearchRank

SpecSearch == InitSearch /\ [][NextSearch]_vars

(***************************************************************************)
(* chunk_text (src/enhance_embeddings.py lines 78-100).  Positions are     *)
(* counted from 0 as in the source.                                        *)
(***************************************************************************)
MaxChunkSize == 6

ChunkTexts == { "", "short", "aaaa.bbbbbbbbbb", "ab cd ef gh ij kl",
                "a.b.c.d.e.f.g.h", "One. Two? Three!" }

\* text[a:b]
Slice(text, a, b) ==
    IF a >= Len(text) \/ b <= a THEN ""
    ELSE SubSeq(text, a + 1, IF b > Len(text) THEN Len(text) ELSE b)

\* text.rfind('.', a, b): the last position of a period in text[a:b], or -1
RFindPeriod(text, a, b) ==
    LET hi == IF b > Len(text) THEN Len(text) ELSE b
        at == { i \in a..(hi - 1) : CharAt(text, i + 1) = "." }
    IN  IF at = {} THEN -1 ELSE CHOOSE i \in at : \A j \in at : j <= i

\* lines 87-93: the end of the chunk that starts at start
ChunkEnd(text, size, start) ==
    LET end         == start + size
        last_period == RFindPeriod(text, start, end)
    IN  IF end < Len(text) /\ last_period # -1
           /\ last_period > start + (size \div 2)
        THEN last_period + 1
        ELSE end

InitChunk ==
    /\ \E text \in ChunkTexts, size \in 1..MaxChunkSize :
       \E overlap \in 0..(size - 1) :
          chunker = [pc |-> "called", text |-> text, size |-> size,
                     overlap |-> overlap, start |-> 0,
                     chunks |-> << >>, spans |-> << >>]
    /\ documents = << >>
    /\ sims = << >>
    /\ s_query = ""
    /\ top_k = DefaultTopK
    /\ s_pc = "idle"
    /\ s_result = << >>
    /\ ClassifyIdle
    /\ TurnIdle

ChunkFrame ==
    /\ UNCHANGED <<documents, sims, s_query, top_k, s_pc, s_result>>
    /\ UNCHANGED <<classifyVars, turnVars>>

\* lines 80-84: a text no longer than size is returned whole
ChunkEnter ==
    /\ chunker.pc = "called"
    /\ chunker' =
           IF Len(chunker.text) <= chunker.size
           THEN [chunker EXCEPT !.pc = "returned",
                                !.chunks = << chunker.text >>,
                                !.spans = << [start |-> 0,
                                              end |-> Len(chunker.text)] >>]
           ELSE [chunker EXCEPT !.pc = "loop"]
    /\ ChunkFrame

\* lines 85-98: one iteration of the while loop
ChunkIteration ==
    /\ chunker.pc = "loop"
    /\ chunker.start < Len(chunker.text)
    /\ LET end   == ChunkEnd(chunker.text, chunker.size, chunker.start)
           chunk == Strip(Slice(chunker.text, chunker.start, end))
       IN  chunker' =
               [chunker EXCEPT
                  !.chunks = IF chunk # "" THEN Append(@, chunk) ELSE @,
                  !.spans  = IF chunk # ""
                             THEN Append(@, [start |-> chunker.start, end |-> end])
                             ELSE @,
                  !.start  = @ + (chunker.size - chunker.overlap)]
    /\ ChunkFrame

\* lines 85 and 100: the loop ends and the chunks are returned
ChunkReturn ==
    /\ chunker.pc = "loop"
    /\ chunker.start >= Len(chunker.text)
    /\ chunker' = [chunker EXCEPT !.pc = "returned"]
    /\ ChunkFrame

NextChunk ==
    \/ ChunkEnter
    \/ ChunkIteration
    \/ ChunkReturn

SpecChunk == InitChunk /\ [][NextChunk]_vars

(***************************************************************************)
(* handle_query: one turn of the /api/query endpoint.                      *)
(***************************************************************************)
MaxRounds == 2

MaxCharts == 6

MaxTurns == 2

ChatModels == { "gemini-1.5-flash", "gemini-2.5-flash", "gemini-2.0-flash" }

TurnQueries == { "", " Hello ", "what is Rate Calculator", "how many shipments",
                 "Email me", "email this chart" }

BodyModes == { "help", "analytics", "auto" }

ConversationHistories ==
    { << >>,
      << [role |-> "user", content |-> "earlier question"],
         [role |-> "assistant", content |-> "earlier answer"] >> }

\* the loaded help index and the similarity of each document to the query
TurnDocuments ==
    << [section_title |-> "Rate Dashboard", content |-> "KPI summary",
        cube |-> "Rate Cube"],
       [section_title |-> "Under Construction", content |-> "coming soon",
        cube |-> ""],
       [section_title |-> "Tracking", content |-> "track a shipment",
        cube |-> ""] >>

TurnSims == << 50, 52, 52 >>

\* exceptions a backend call can raise: type name and str(exception)
Errors == { [type |-> "ResourceExhausted",
             message |-> "429 Resource has been exhausted"],
            [type |-> "ServerError", message |-> "500 INTERNAL"] }

EmbeddingError == [type |-> "ClientError", message |-> "400 INVALID_ARGUMENT"]

\* a function call of a backend response (lines 1053-1059)
Call(name, arguments) == [name |-> name, arguments |-> arguments]

Reply(fn_calls, text) == [present |-> TRUE, fn_calls |-> fn_calls, text |-> text]

GoodSql == "SELECT 1"

ChartArgs == [sql |-> GoodSql, chart_type |-> "bar", x |-> "Carrier", y |-> "n"]

BackendResponses ==
    { Reply(<< >>, "Here is the answer."),
      Reply(<< Call("sql_tool", [sql |-> GoodSql]) >>, ""),
      Reply(<< Call("sql_tool", [sql |-> GoodSql]),
               Call("percentage_tool",
                    [numerator_sql |-> GoodSql, denominator_sql |-> GoodSql]) >>,
            "") }

\* what the backend may answer to a request for a chart; snippet is the
\* chart markup of this turn, if any: the backend asks for the chart, and for
\* its mailing, until it has one
ChartResponses(snippet) ==
    { Reply(<< >>, "Top 3 carriers are shown."),
      Reply(<< >>, "See ![logo](/static/logo.png) for the legend.") }
    \cup (IF snippet = ""
          THEN { Reply(<< Call("chart_tool", ChartArgs),
                          Call("draft_email_tool",
                               [to_usernames |-> << "kangadi" >>,
                                subject |-> "Report",
                                body_markdown |-> "Summary"]) >>, "") }
          ELSE { Reply(<< >>, "Your chart: " \o snippet) })

\* the backend asks for one chart and then presents it
SingleChartResponses(snippet) ==
    IF snippet = "" THEN { Reply(<< Call("chart_tool", ChartArgs) >>, "") }
    ELSE { Reply(<< >>, "Your chart: " \o snippet) }

\* the backend asks for a chart and for its mailing, by both e-mail tools and
\* without a body, and then reports
MailChartResponses(snippet) ==
    IF snippet = ""
    THEN { Reply(<< Call("chart_tool", ChartArgs),
                    Call("draft_email_tool",
                         [to_usernames |-> << "kangadi" >>,
                          subject      |-> "Report",
                          attachments  |-> << "/static/demo/c1.html",
                                              "/static/report.pdf" >>]),
                    Call("mail_tool",
                         [to_usernames  |-> << "kangadi" >>,
                          body_markdown |-> ""]) >>, "") }
    ELSE { Reply(<< >>, "Chart mailed.") }

DashboardResponses ==
    { Reply(<< >>, "Dashboard ready."),
      Reply(<< Call("chart_tool", ChartArgs), Call("chart_tool", ChartArgs),
               Call("chart_tool", ChartArgs) >>, "") }

NavigationResponses ==
    { Reply(<< >>, "Opening the page."),
      Reply(<< Call("navigate_tool", [destination |-> "Rate Calculator"]) >>, ""),
      Reply(<< Call("navigate_tool", NoArgs) >>, ""),
      Reply(<< Call("navigate_tool", [destination |-> "Disputes"]),
               Call("navigate_tool", [destination |-> "moon base"]) >>, "") }

ToolResponses ==
    { Reply(<< >>, "All done."),
      Reply(<< Call("sql_tool", [sql |-> GoodSql]), Call("sql_tool", NoArgs) >>, ""),
      Reply(<< Call("sql_tool", [sql |-> "select 1; DROP TABLE Users"]) >>, ""),
      Reply(<< Call("chart_tool", [chart_type |-> "pie"]),
               Call("multi_sql_tool", [queries |-> << GoodSql, "select 2" >>]),
               Call("percentage_tool",
                    [numerator_sql |-> GoodSql, denominator_sql |-> GoodSql]),
               Call("update_dispute_status",
                    [dispute_id |-> "7", new_status |-> "closed",
                     changed_by |-> "agent"]),
               Call("add_audit_comment", [dispute_id |-> "7", comments |-> "ok"]) >>,
            ""),
      Reply(<< Call("mail_tool", [to_usernames |-> << "Bob@x.io" >>]),
               Call("export_tool", NoArgs),
               Call("draft_email_tool", [subject |-> "Report"]) >>, "") }

\* the query texts the backend may ask a query tool to run
SqlTexts ==
    { "SELECT 1",
      " select n from t",
      "SELECT n FROM t LIMIT 3",
      "SELECT TOP 2 n FROM t limit 5",
      "SELECT n FROM t WHERE y = {{CURRENT_YEAR}} AND m = {{CURRENT_MONTH}}",
      "SELECT updated_at FROM t",
      "SELECT 1; DROP TABLE Users",
      "SELECT 1; DROLIMIT 1P TABLE Users",
      "DELETE FROM Users",
      "selection",
      "" }

SqlCalls ==
    { Call("sql_tool", [sql |-> t]) : t \in SqlTexts }
    \cup { Call("chart_tool", [sql |-> t, chart_type |-> "bar", x |-> "n", y |-> "n"]) :
              t \in SqlTexts }
    \cup { Call("multi_sql_tool", [queries |-> << "SELECT 1", t >>]) : t \in SqlTexts }
    \cup { Call("percentage_tool", [numerator_sql |-> t, denominator_sql |-> "SELECT 1"]) :
              t \in SqlTexts }

\* the backend asks for one query tool per round
SqlResponses == { Reply(<< >>, "Done.") } \cup { Reply(<< c >>, "") : c \in SqlCalls }

\* the backend's possible answers, by what was asked; done holds the calls
\* already executed in the turn, and a batch of checks is asked for once
ResponsesFor(q, snippet, done) ==
    IF q = "plot carriers" THEN ChartResponses(snippet)
    ELSE IF q = "chart it" THEN SingleChartResponses(snippet)
    ELSE IF q = "mail the chart" THEN MailChartResponses(snippet)
    ELSE IF q = "plot dashboard" THEN DashboardResponses
    ELSE IF q = "open rate calculator" THEN NavigationResponses
    ELSE IF q = "run sql"
         THEN { r \in SqlResponses : r.fn_calls = << >> \/ r.fn_calls[1] \notin done }
    ELSE IF q = "run checks"
         THEN { r \in ToolResponses : r.fn_calls = << >> \/ r.fn_calls[1] \notin done }
    ELSE BackendResponses

NumChartCalls(r) ==
    Cardinality({ i \in 1..Len(r.fn_calls) : r.fn_calls[i].name = "chart_tool" })

GreetingReply ==
    "Hello! I'm Cubie, your personal supply chain assistant. How can I assist you today?"

AskEmailContextReply == "I'd be happy to send you an email! Could you please specify"

\* the variables a request starts from (lines 604-606 and 951-952)
TurnStart ==
    /\ detected_intent = NoIntent
    /\ top_docs = << >>
    /\ embed_failed = FALSE
    /\ context = ""
    /\ user_message = ""
    /\ gemini_history = << >>
    /\ chat = NoChat
    /\ current_model_name = ""
    /\ current_message = TextMessage("")
    /\ model_idx = 1
    /\ response = NoResponse
    /\ last_error = NoError
    /\ attempts = << >>
    /\ rounds = 0
    /\ sessions_created = 0
    /\ processed = 0
    /\ help_sends = 0
    /\ chat_sends = 0
    /\ intercept = "none"
    /\ last_chart_snippet = ""
    /\ navigation_result = ""
    /\ function_responses = << >>
    /\ executed = << >>
    /\ mails = << >>
    /\ raised = NoError
    /\ http = NoHttp
    /\ navigation_url = ""

ProcessStart ==
    /\ LAST_BODY = ""
    /\ LAST_CHARTS = << >>
    /\ EMAIL_DRAFTS = NoDrafts
    /\ chart_log = << >>
    /\ turns = 0
    /\ approve_reqs = NoApprovals

InitTurn ==
    /\ chat_model \in ChatModels
    /\ ProcessStart
    /\ t_pc = "received"
    /\ t_query \in TurnQueries
    /\ mode \in BodyModes
    /\ conversation_history \in ConversationHistories
    /\ TurnStart
    /\ ClassifyIdle
    /\ SearchIdle

\* lines 585-586: the response to a request without a question
MissingQuestionResponse ==
    [status |-> 400, error |-> "Missing 'question' in request."]

\* the greeting test on the text as typed
IsGreeting_Untrimmed(q) == InList(q, greeting_keywords)

\* line 596: the greeting test
IsGreeting(q) == InList(Lower(Strip(q)), greeting_keywords)

\* whether classify_intent reaches its generative call (line 263): neither
\* return of the fast path was taken
ClassifierCallsBackend(q, em) == FastPath(Lower(q), em) = NoIntent

\* lines 612-614: the mode a request is handled in
OverrideMode(di, m) ==
    IF di \in {"analytics", "visualization", "email", "navigation"} /\ m = "help"
    THEN "analytics" ELSE m

\* lines 580-625: validation, greeting shortcut, intent detection, mode
\* override and the email-context question
ReceiveQuery ==
    /\ t_pc = "received"
    /\ IF t_query = ""
       THEN /\ http' = MissingQuestionResponse
            /\ t_pc' = "responded"
            /\ UNCHANGED <<mode, detected_intent, llm_calls>>
       ELSE IF IsGreeting(t_query)
       THEN /\ http' = [status |-> 200, reply |-> GreetingReply]
            /\ t_pc' = "responded"
            /\ UNCHANGED <<mode, detected_intent, llm_calls>>
       ELSE \E o \in LLMOutcomes :
            LET di == ClassifyIntent(t_query, mode, o)
                m  == OverrideMode(di, mode)
            IN  /\ detected_intent' = di
                /\ mode' = m
                /\ llm_calls' = IF ClassifierCallsBackend(t_query, mode)
                                 THEN llm_calls + 1 ELSE llm_calls
                /\ IF di = "email" /\ ShouldAskEmailContext(t_query, LAST_BODY)
                   THEN /\ http' = [status |-> 200, reply |-> AskEmailContextReply]
                        /\ t_pc' = "responded"
                   ELSE /\ t_pc' = IF m = "help" THEN "retrieve" ELSE "build"
                        /\ UNCHANGED http
    /\ UNCHANGED <<top_docs, embed_failed, help_sends, chat_sends, intercept,
                   raised, navigation_url>>
    /\ UNCHANGED <<fixedVars, globalVars, convVars, loopVars, toolVars>>
    /\ UNCHANGED <<query, explicit_mode, history, q_lower, cl_pc, intent,
                   returned_by, llm_outcome, prompt>>
    /\ UNCHANGED <<searchVars, approve_reqs>>

\* lines 629-637: retrieval for the help context; an exception of
\* search_documents is caught and leaves top_docs empty
Retrieve ==
    /\ t_pc = "retrieve"
    /\ \E ok \in BOOLEAN :
        LET r == RetrieveOutcome(ok, TurnDocuments, TurnSims, t_query)
        IN  /\ embed_failed' = ~ok
            /\ IF r.escaped
               THEN /\ raised' = EmbeddingError
                    /\ http' = ErrorResponse(EmbeddingError)
                    /\ t_pc' = "responded"
                    /\ UNCHANGED top_docs
               ELSE /\ top_docs' = r.docs
                    /\ t_pc' = "build"
                    /\ UNCHANGED <<raised, http>>
    /\ UNCHANGED <<mode, detected_intent, help_sends, chat_sends, intercept,
                   navigation_url>>
    /\ UNCHANGED <<fixedVars, globalVars, convVars, loopVars, toolVars>>
    /\ UNCHANGED <<classifyVars, searchVars, approve_reqs>>

\* lines 639-660 and 886-897: the context and the conversation in backend
\* format; on the help branch also the test of lines 1214-1255, which
\* answers an approval or a rejection without calling the backend
BuildConversation ==
    /\ t_pc = "build"
    /\ LET ctx == IF mode = "help"
                  THEN BuildContext([i \in 1..Len(top_docs) |->
                                        TurnDocuments[top_docs[i].doc]])
                  ELSE ""
           um  == t_query \o "\n\nHelp Context:\n" \o ctx
           gh  == GeminiHistory(conversation_history
                                \o << [role |-> "user", content |-> um] >>)
       IN  /\ context' = ctx
           /\ user_message' = um
           /\ gemini_history' = gh
           /\ IF mode = "analytics"
              THEN /\ t_pc' = "enter"
                   /\ UNCHANGED <<http, EMAIL_DRAFTS, mails, intercept>>
              ELSE IF HelpInterception(um) = "approve"
              THEN /\ t_pc' = "responded"
                   /\ IF HasDraft(EMAIL_DRAFTS)
                      THEN \E smtp \in ToolEnvs("mail_tool") :
                           LET m == MailOfDraft(EMAIL_DRAFTS[SessionId], smtp)
                           IN  /\ mails' = Append(mails, m)
                               /\ EMAIL_DRAFTS' = WithoutDraft(EMAIL_DRAFTS)
                               /\ http' = [status |-> 200,
                                           reply  |-> ApprovalReply(m.result)]
                               /\ intercept' = "approved"
                      ELSE /\ http' = [status |-> 200, reply |-> NoDraftReply]
                           /\ intercept' = "approved_no_draft"
                           /\ UNCHANGED <<EMAIL_DRAFTS, mails>>
              ELSE IF HelpInterception(um) = "reject"
              THEN /\ t_pc' = "responded"
                   /\ EMAIL_DRAFTS' = WithoutDraft(EMAIL_DRAFTS)
                   /\ http' = [status |-> 200, reply |-> CancelledReply]
                   /\ intercept' = IF HasDraft(EMAIL_DRAFTS) THEN "rejected"
                                   ELSE "rejected_no_draft"
                   /\ UNCHANGED mails
              ELSE /\ t_pc' = "help_send"
                   /\ UNCHANGED <<http, EMAIL_DRAFTS, mails, intercept>>
    /\ UNCHANGED <<last_chart_snippet, navigation_result, function_responses,
                   executed>>
    /\ UNCHANGED <<LAST_BODY, LAST_CHARTS, chart_log>>
    /\ UNCHANGED <<mode, detected_intent, top_docs, embed_failed, help_sends,
                   chat_sends, raised, navigation_url>>
    /\ UNCHANGED <<fixedVars, loopVars, classifyVars, searchVars, approve_reqs>>

\* lines 899-1006: the approval / rejection interception of the analytics
\* branch, then the first chat session.  An approval that finds a draft
\* sends it and goes on into the agent loop; a rejection that finds a draft
\* returns at once.
EnterAgentLoop ==
    /\ t_pc = "enter"
    /\ \E smtp \in ToolEnvs("mail_tool") :
        LET approved == IsApproved(t_query)
            rejected == ~approved /\ IsRejected(t_query)
            drafted  == HasDraft(EMAIL_DRAFTS)
        IN  /\ intercept' =
                   IF approved THEN (IF drafted THEN "approved" ELSE "approved_no_draft")
                   ELSE IF rejected
                        THEN (IF drafted THEN "rejected" ELSE "rejected_no_draft")
                   ELSE "none"
            /\ mails' = IF approved /\ drafted
                        THEN Append(mails, MailOfDraft(EMAIL_DRAFTS[SessionId], smtp))
                        ELSE mails
            /\ EMAIL_DRAFTS' = IF (approved \/ rejected) /\ drafted
                               THEN WithoutDraft(EMAIL_DRAFTS) ELSE EMAIL_DRAFTS
            /\ IF rejected /\ drafted
               THEN /\ http' = [status |-> 200, reply |-> CancelledReply]
                    /\ t_pc' = "responded"
                    /\ UNCHANGED <<current_model_name, chat, sessions_created,
                                   current_message>>
               ELSE /\ current_model_name' = FallbackModels(chat_model)[1]
                    /\ chat' = NewChat(sessions_created + 1,
                                       FallbackModels(chat_model)[1],
                                       AllButLast(gemini_history))
                    /\ sessions_created' = sessions_created + 1
                    /\ current_message' =
                           TextMessage(FinalUserMsg(gemini_history, user_message))
                    /\ t_pc' = "attempt"
                    /\ UNCHANGED http
    /\ UNCHANGED <<model_idx, response, last_error, attempts, rounds, processed>>
    /\ UNCHANGED <<last_chart_snippet, navigation_result, function_responses,
                   executed>>
    /\ UNCHANGED <<LAST_BODY, LAST_CHARTS, chart_log>>
    /\ UNCHANGED <<mode, detected_intent, top_docs, embed_failed, help_sends,
                   chat_sends, raised, navigation_url>>
    /\ UNCHANGED <<fixedVars, convVars, classifyVars, searchVars, approve_reqs>>

\* one attempt of the fallback loop on fallback_models[model_idx]:
\* the session it uses and the record of what it transmits (lines 1012-1032)
AttemptOn(ok, err) ==
    LET models     == FallbackModels(chat_model)
        model_name == models[model_idx]
        create     == NeedsNewSession(model_name, current_model_name, chat)
        session    == IF create
                      THEN NewChat(sessions_created + 1, model_name,
                                   AllButLast(gemini_history))
                      ELSE chat
    IN  [ idx             |-> model_idx,
          model           |-> model_name,
          pre_session     |-> chat.id,
          pre_model       |-> chat.model,
          created         |-> create,
          session         |-> session.id,
          session_model   |-> session.model,
          session_history |-> session.history,
          payload         |-> Payload(current_message, model_name, models,
                                      gemini_history, user_message),
          ok              |-> ok,
          error           |-> err ]

SessionOf(a) == NewChat(a.session, a.session_model, a.session_history)

\* lines 1012-1035: the attempt succeeds and ends the fallback loop
SendSucceeds ==
    /\ t_pc = "attempt"
    /\ model_idx <= Len(FallbackModels(chat_model))
    /\ \E r \in ResponsesFor(t_query, last_chart_snippet,
                           { executed[i].call : i \in 1..Len(executed) }) :
        /\ (r.fn_calls # << >>) => (rounds < MaxRounds)
        /\ Len(chart_log) + NumChartCalls(r) <= MaxCharts
        /\ LET a == AttemptOn(TRUE, NoError)
           IN  /\ attempts' = Append(attempts, a)
               /\ chat' = SessionOf(a)
               /\ current_model_name' = a.model
               /\ sessions_created' = IF a.created THEN sessions_created + 1
                                      ELSE sessions_created
        /\ response' = r
        /\ t_pc' = "process"
    /\ chat_sends' = chat_sends + 1
    /\ UNCHANGED <<current_message, model_idx, last_error, rounds, processed>>
    /\ UNCHANGED <<mode, detected_intent, top_docs, embed_failed, help_sends,
                   intercept, raised, http, navigation_url>>
    /\ UNCHANGED <<fixedVars, globalVars, convVars, toolVars>>
    /\ UNCHANGED <<classifyVars, searchVars, approve_reqs>>

\* lines 1036-1043: the attempt raises; the session is dropped and the loop
\* advances to the next candidate
SendFails ==
    /\ t_pc = "attempt"
    /\ model_idx <= Len(FallbackModels(chat_model))
    /\ \E e \in Errors :
        LET a == AttemptOn(FALSE, e)
        IN  /\ attempts' = Append(attempts, a)
            /\ chat' = SessionAfterFailure(SessionOf(a))
            /\ current_model_name' = a.model
            /\ sessions_created' = IF a.created THEN sessions_created + 1
                                   ELSE sessions_created
            /\ last_error' = e
    /\ model_idx' = model_idx + 1
    /\ chat_sends' = chat_sends + 1
    /\ UNCHANGED <<current_message, response, rounds, processed, t_pc>>
    /\ UNCHANGED <<mode, detected_intent, top_docs, embed_failed, help_sends,
                   intercept, raised, http, navigation_url>>
    /\ UNCHANGED <<fixedVars, globalVars, convVars, toolVars>>
    /\ UNCHANGED <<classifyVars, searchVars, approve_reqs>>

\* lines 1045-1047 and 1338-1354: every candidate failed; the last error is
\* raised and answered by the outer except clauses
AllModelsFailed ==
    /\ t_pc = "attempt"
    /\ model_idx > Len(FallbackModels(chat_model))
    /\ raised' = last_error
    /\ http' = ErrorResponse(last_error)
    /\ t_pc' = "responded"
    /\ UNCHANGED <<mode, detected_intent, top_docs, embed_failed, help_sends,
                   chat_sends, intercept, navigation_url>>
    /\ UNCHANGED <<fixedVars, globalVars, convVars, loopVars, toolVars>>
    /\ UNCHANGED <<classifyVars, searchVars, approve_reqs>>

\* lines 1061-1154: the response asks for tools.  One step executes the
\* next call of the batch in request order; a tool that raises outside a
\* try block ends the turn through the outer except clauses (lines
\* 1338-1354); after the last call the batch becomes the next message.
ExecuteTools ==
    /\ t_pc = "process"
    /\ LoopContinues(response, rounds)
    /\ LET idx  == Len(function_responses) + 1
           call == response.fn_calls[idx]
           ref  == ChartRef(Len(chart_log) + 1)
       IN  \E env \in ToolEnvs(call.name) :
           LET out     == Dispatch(call, env, ref, LAST_BODY, LAST_CHARTS)
               charted == call.name = "chart_tool" /\ ~out.raised
                          /\ IsChartMarkup(out.result)
               batch   == AppendResponse(function_responses, call.name, out.result)
           IN  /\ executed' = Append(executed,
                                     [ round   |-> rounds + 1,
                                       index   |-> idx,
                                       call    |-> call,
                                       env     |-> env,
                                       queries |-> QueriesRun(call),
                                       raised  |-> out.raised,
                                       result  |-> out.result ])
               /\ chart_log' = IF charted THEN Append(chart_log, ref) ELSE chart_log
               /\ last_chart_snippet' = IF charted THEN out.result
                                        ELSE last_chart_snippet
               /\ IF charted
                  THEN LAST_CHARTS' \in ChartsAfterCall(LAST_CHARTS, out.result)
                  ELSE UNCHANGED LAST_CHARTS
               /\ mails' = IF call.name \in { "draft_email_tool", "mail_tool" }
                           THEN Append(mails, MailOf(call.name, call.arguments,
                                                     LAST_BODY, LAST_CHARTS, env))
                           ELSE mails
               /\ navigation_result' = IF call.name = "navigate_tool" /\ ~out.raised
                                       THEN out.result ELSE navigation_result
               /\ IF out.raised
                  THEN /\ raised' = out.error
                       /\ http' = ErrorResponse(out.error)
                       /\ t_pc' = "responded"
                       /\ UNCHANGED <<function_responses, current_message,
                                      processed, rounds, response, last_error,
                                      model_idx, attempts>>
                  ELSE IF idx < Len(response.fn_calls)
                  THEN /\ function_responses' = batch
                       /\ UNCHANGED <<current_message, processed, rounds, response,
                                      last_error, model_idx, attempts, t_pc,
                                      raised, http>>
                  ELSE /\ function_responses' = << >>
                       /\ current_message' = FunctionResponses(batch)
                       /\ processed' = processed + 1
                       /\ rounds' = rounds + 1
                       /\ response' = NoResponse
                       /\ last_error' = NoError
                       /\ model_idx' = 1
                       /\ attempts' = << >>
                       /\ t_pc' = "attempt"
                       /\ UNCHANGED <<raised, http>>
    /\ UNCHANGED <<chat, current_model_name, sessions_created>>
    /\ UNCHANGED <<LAST_BODY, EMAIL_DRAFTS>>
    /\ UNCHANGED <<mode, detected_intent, top_docs, embed_failed, help_sends,
                   chat_sends, intercept, navigation_url>>
    /\ UNCHANGED <<fixedVars, convVars, classifyVars, searchVars, approve_reqs>>

\* lines 1156-1209: the response carries no tool call and is the final answer
FinalAnswer ==
    /\ t_pc = "process"
    /\ ~LoopContinues(response, rounds)
    /\ LET url         == NavigationUrl(navigation_result)
           final_reply == ReplyWithMarker(response.text, url)
       IN  /\ LAST_BODY' = Strip(final_reply)
           /\ LAST_CHARTS' \in ChartsAtFinalAnswer(LAST_CHARTS, last_chart_snippet)
           /\ http' = [status |-> 200,
                       reply  |-> ReplyWithChart(last_chart_snippet, final_reply)]
           /\ navigation_url' = url
    /\ processed' = processed + 1
    /\ t_pc' = "responded"
    /\ UNCHANGED <<chat, current_model_name, current_message, model_idx, response,
                   last_error, attempts, rounds, sessions_created>>
    /\ UNCHANGED <<EMAIL_DRAFTS, chart_log>>
    /\ UNCHANGED <<mode, detected_intent, top_docs, embed_failed, help_sends,
                   chat_sends, intercept, raised>>
    /\ UNCHANGED <<fixedVars, convVars, toolVars, classifyVars, searchVars, approve_reqs>>

\* a help branch that records its answer as the last answer text
HelpSendSucceeds_RecordsBody ==
    /\ t_pc = "help_send"
    /\ help_sends' = help_sends + 1
    /\ http' = [status |-> 200, reply |-> "Here is the answer."]
    /\ LAST_BODY' = "Here is the answer."
    /\ t_pc' = "responded"
    /\ UNCHANGED <<mode, detected_intent, top_docs, embed_failed, chat_sends,
                   intercept, raised, navigation_url>>
    /\ UNCHANGED <<LAST_CHARTS, EMAIL_DRAFTS, chart_log>>
    /\ UNCHANGED <<fixedVars, convVars, loopVars, toolVars>>
    /\ UNCHANGED <<classifyVars, searchVars, approve_reqs>>

\* lines 1257-1336: the help branch sends once on CHAT_MODEL
HelpSendSucceeds ==
    /\ t_pc = "help_send"
    /\ help_sends' = help_sends + 1
    /\ http' = [status |-> 200, reply |-> "Here is the answer."]
    /\ t_pc' = "responded"
    /\ UNCHANGED <<mode, detected_intent, top_docs, embed_failed, chat_sends,
                   intercept, raised, navigation_url>>
    /\ UNCHANGED <<fixedVars, globalVars, convVars, loopVars, toolVars>>
    /\ UNCHANGED <<classifyVars, searchVars, approve_reqs>>

\* lines 1281-1286: the except clause around the help send, by str(gemini_err)
HelpErrorResponse(e) ==
    [status |-> 200,
     reply  |-> IF Contains("429", e.message)
                   \/ Contains("Resource has been exhausted", e.message)
                THEN OverloadedReply
                ELSE "System Error: " \o e.message]

\* lines 1279-1286: the help send raises and is answered in place; last_error
\* holds the exception caught (gemini_err)
HelpSendFails ==
    /\ t_pc = "help_send"
    /\ help_sends' = help_sends + 1
    /\ \E e \in Errors :
        /\ last_error' = e
        /\ http' = HelpErrorResponse(e)
    /\ t_pc' = "responded"
    /\ UNCHANGED <<mode, detected_intent, top_docs, embed_failed, chat_sends,
                   intercept, raised, navigation_url>>
    /\ UNCHANGED <<chat, current_model_name, current_message, model_idx, response,
                   attempts, rounds, sessions_created, processed>>
    /\ UNCHANGED <<fixedVars, globalVars, convVars, toolVars>>
    /\ UNCHANGED <<classifyVars, searchVars, approve_reqs>>

NextTurn ==
    \/ ReceiveQuery
    \/ Retrieve
    \/ BuildConversation
    \/ EnterAgentLoop
    \/ SendSucceeds
    \/ SendFails
    \/ AllModelsFailed
    \/ ExecuteTools
    \/ FinalAnswer
    \/ HelpSendSucceeds
    \/ HelpSendFails

SpecTurn == InitTurn /\ [][NextTurn]_vars

(***************************************************************************)
(* The tools of the agent loop: one analytics turn whose backend asks for  *)
(* tools.                                                                  *)
(***************************************************************************)
ToolQueries == { "plot carriers", "open rate calculator", "run checks" }

InitTools ==
    /\ chat_model = "gemini-2.5-flash"
    /\ ProcessStart
    /\ t_pc = "received"
    /\ t_query \in ToolQueries
    /\ mode = "analytics"
    /\ conversation_history = << >>
    /\ TurnStart
    /\ ClassifyIdle
    /\ SearchIdle

NextTools ==
    \/ ReceiveQuery
    \/ BuildConversation
    \/ EnterAgentLoop
    \/ SendSucceeds
    \/ SendFails
    \/ AllModelsFailed
    \/ ExecuteTools
    \/ FinalAnswer

SpecTools == InitTools /\ [][NextTools]_vars

(***************************************************************************)
(* A dashboard turn: the backend asks for several charts in each round and *)
(* answers every send.                                                     *)
(***************************************************************************)
InitCharts ==
    /\ chat_model = "gemini-2.5-flash"
    /\ ProcessStart
    /\ t_pc = "received"
    /\ t_query = "plot dashboard"
    /\ mode = "analytics"
    /\ conversation_history = << >>
    /\ TurnStart
    /\ ClassifyIdle
    /\ SearchIdle

NextCharts ==
    \/ ReceiveQuery
    \/ BuildConversation
    \/ EnterAgentLoop
    \/ SendSucceeds
    \/ ExecuteTools
    \/ FinalAnswer

SpecCharts == InitCharts /\ [][NextCharts]_vars

(***************************************************************************)
(* A session: several requests handled one after the other by the same     *)
(* process, which keeps LAST_BODY, LAST_CHARTS and EMAIL_DRAFTS.           *)
(***************************************************************************)
SessionQueries == { "plot carriers", "yes send it", "no", "don't send",
                    "how many shipments" }

\* the draft of the session
PendingDraft ==
    [ recipients  |-> << "kangadi" >>,
      subject     |-> "Assistance Summary",
      body        |-> "Carrier report",
      attachments |-> << "/static/demo/c1.html" >> ]

\* stash(sessionId, draft): a draft is left pending for the session,
\* between two requests
StashDraft ==
    /\ t_pc = "responded"
    /\ ~HasDraft(EMAIL_DRAFTS)
    /\ EMAIL_DRAFTS' = [k \in { SessionId } |-> PendingDraft]
    /\ UNCHANGED <<LAST_BODY, LAST_CHARTS, chart_log>>
    /\ UNCHANGED <<t_pc, mode, detected_intent, top_docs, embed_failed, help_sends,
                   chat_sends, intercept, raised, http, navigation_url>>
    /\ UNCHANGED <<fixedVars, convVars, loopVars, toolVars>>
    /\ UNCHANGED <<classifyVars, searchVars, approve_reqs>>

\* the locals of handle_query at the start of the next request
FreshLocals ==
    /\ t_pc' = "received"
    /\ detected_intent' = NoIntent
    /\ top_docs' = << >>
    /\ embed_failed' = FALSE
    /\ context' = ""
    /\ user_message' = ""
    /\ gemini_history' = << >>
    /\ chat' = NoChat
    /\ current_model_name' = ""
    /\ current_message' = TextMessage("")
    /\ model_idx' = 1
    /\ response' = NoResponse
    /\ last_error' = NoError
    /\ attempts' = << >>
    /\ rounds' = 0
    /\ sessions_created' = 0
    /\ processed' = 0
    /\ help_sends' = 0
    /\ chat_sends' = 0
    /\ intercept' = "none"
    /\ last_chart_snippet' = ""
    /\ navigation_result' = ""
    /\ function_responses' = << >>
    /\ executed' = << >>
    /\ mails' = << >>
    /\ raised' = NoError
    /\ http' = NoHttp
    /\ navigation_url' = ""
    /\ llm_calls' = 0
    /\ UNCHANGED <<query, explicit_mode, history, q_lower, cl_pc, intent,
                   returned_by, llm_outcome, prompt>>
    /\ UNCHANGED <<searchVars, approve_reqs>>

\* the next POST /api/query of the session: every local of handle_query
\* starts afresh, the module globals stay
NextRequest ==
    /\ t_pc = "responded"
    /\ turns < MaxTurns
    /\ turns' = turns + 1
    /\ t_query' \in SessionQueries
    /\ mode' = "analytics"
    /\ FreshLocals
    /\ UNCHANGED <<chat_model, conversation_history, globalVars>>

InitSession ==
    /\ chat_model = "gemini-2.5-flash"
    /\ ProcessStart
    /\ t_pc = "received"
    /\ t_query \in SessionQueries
    /\ mode = "analytics"
    /\ conversation_history = << >>
    /\ TurnStart
    /\ ClassifyIdle
    /\ SearchIdle

\* the backend answers every send of these sessions
NextSession ==
    \/ ReceiveQuery
    \/ BuildConversation
    \/ EnterAgentLoop
    \/ SendSucceeds
    \/ ExecuteTools
    \/ FinalAnswer
    \/ StashDraft
    \/ NextRequest

SpecSession == InitSession /\ [][NextSession]_vars

(***************************************************************************)
(* A session in either mode whose requests are greetings and rejections;   *)
(* the history a request carries is the exchange before it.                *)
(***************************************************************************)
DraftQueries == { "no", " Hello ", "chart it" }

DraftModes == { "help", "analytics" }

\* body["history"] of the next request: the exchange just made
LastExchange ==
    << [role |-> "user", content |-> t_query],
       [role |-> "assistant", content |-> http.reply] >>

NextDraftRequest ==
    /\ t_pc = "responded"
    /\ turns < MaxTurns
    /\ turns' = turns + 1
    /\ t_query' \in DraftQueries
    /\ mode' \in DraftModes
    /\ conversation_history' = LastExchange
    /\ FreshLocals
    /\ UNCHANGED <<chat_model, globalVars>>

InitDrafts ==
    /\ chat_model = "gemini-2.5-flash"
    /\ ProcessStart
    /\ t_pc = "received"
    /\ t_query \in DraftQueries
    /\ mode \in DraftModes
    /\ conversation_history = << >>
    /\ TurnStart
    /\ ClassifyIdle
    /\ SearchIdle

\* the backend answers every call of these sessions
NextDrafts ==
    \/ ReceiveQuery
    \/ Retrieve
    \/ BuildConversation
    \/ EnterAgentLoop
    \/ SendSucceeds
    \/ ExecuteTools
    \/ FinalAnswer
    \/ HelpSendSucceeds
    \/ HelpSendFails
    \/ StashDraft
    \/ NextDraftRequest

SpecDrafts == InitDrafts /\ [][NextDrafts]_vars

(***************************************************************************)
(* An analytics turn whose backend asks for queries: the texts that reach  *)
(* the query executor.                                                     *)
(***************************************************************************)
InitSql ==
    /\ chat_model = "gemini-2.5-flash"
    /\ ProcessStart
    /\ t_pc = "received"
    /\ t_query = "run sql"
    /\ mode = "analytics"
    /\ conversation_history = << >>
    /\ TurnStart
    /\ ClassifyIdle
    /\ SearchIdle

NextSql ==
    \/ ReceiveQuery
    \/ BuildConversation
    \/ EnterAgentLoop
    \/ SendSucceeds
    \/ ExecuteTools
    \/ FinalAnswer

SpecSql == InitSql /\ [][NextSql]_vars

(***************************************************************************)
(* A session whose requests ask for a chart and for its mailing.           *)
(***************************************************************************)
MailQueries == { "mail the chart", "how many shipments" }

NextMailRequest ==
    /\ t_pc = "responded"
    /\ turns < MaxTurns
    /\ turns' = turns + 1
    /\ t_query' \in MailQueries
    /\ mode' = "analytics"
    /\ FreshLocals
    /\ UNCHANGED <<chat_model, conversation_history, globalVars>>

InitMail ==
    /\ chat_model = "gemini-2.5-flash"
    /\ ProcessStart
    /\ t_pc = "received"
    /\ t_query \in MailQueries
    /\ mode = "analytics"
    /\ conversation_history = << >>
    /\ TurnStart
    /\ ClassifyIdle
    /\ SearchIdle

NextMail ==
    \/ ReceiveQuery
    \/ BuildConversation
    \/ EnterAgentLoop
    \/ SendSucceeds
    \/ ExecuteTools
    \/ FinalAnswer
    \/ NextMailRequest

SpecMail == InitMail /\ [][NextMail]_vars

(***************************************************************************)
(* The direct approval endpoint (lines 525-566) next to the chat endpoint. *)
(* Both handlers are coroutines (async def) of one event loop: a handler   *)
(* is suspended only at `await request.json()` (lines 529 and 580) and     *)
(* runs from there to its return without yielding, every call it makes     *)
(* being synchronous.  Handler 0 is handle_query, handler r > 0 the r-th   *)
(* request to approve_email.                                               *)
(***************************************************************************)
Handlers == 0..MaxApprovals

\* handler h is between its await and its return
Running(h) ==
    IF h = 0 THEN t_pc \notin { "off", "received", "responded" }
    ELSE approve_reqs[h].pc \in { "found", "mailed" }

\* handlers run on threads of their own
MayRun_OnThreads(h) == TRUE

\* the event loop resumes or continues handler h only while no other
\* handler is between its await and its return
MayRun(h) == \A g \in Handlers \ { h } : ~Running(g)

ApproveFrame ==
    /\ UNCHANGED <<LAST_BODY, LAST_CHARTS, chart_log>>
    /\ UNCHANGED <<t_pc, mode, detected_intent, top_docs, embed_failed, help_sends,
                   chat_sends, intercept, raised, http, navigation_url>>
    /\ UNCHANGED <<fixedVars, convVars, loopVars, toolVars>>
    /\ UNCHANGED <<classifyVars, searchVars>>

\* a request reaches /api/approve-email and waits for its body (line 529)
ApproveArrives(r) ==
    /\ approve_reqs[r].pc = "idle"
    /\ r > 1 => approve_reqs[r - 1].pc # "idle"
    /\ \E sid \in ApproveSessionIds :
        approve_reqs' = [approve_reqs EXCEPT ![r].pc = "awaiting",
                                             ![r].session_id = sid]
    /\ UNCHANGED EMAIL_DRAFTS
    /\ ApproveFrame

\* lines 530-536 and 556-559: the handler resumes and looks for the draft
ApproveCheck(r) ==
    /\ approve_reqs[r].pc = "awaiting"
    /\ MayRun(r)
    /\ LET session_id == approve_reqs[r].session_id
       IN  approve_reqs' =
               IF session_id \in DOMAIN EMAIL_DRAFTS
               THEN [approve_reqs EXCEPT
                       ![r].pc = "found",
                       ![r].draft_data = << EMAIL_DRAFTS[session_id] >>]
               ELSE [approve_reqs EXCEPT
                       ![r].pc = "done",
                       ![r].http = [status |-> 200, reply |-> NoDraftReply]]
    /\ UNCHANGED EMAIL_DRAFTS
    /\ ApproveFrame

\* lines 539-546: mail_tool is called with the draft
ApproveSend(r) ==
    /\ approve_reqs[r].pc = "found"
    /\ MayRun(r)
    /\ \E smtp \in ToolEnvs("mail_tool") :
        approve_reqs' =
            [approve_reqs EXCEPT
               ![r].pc = "mailed",
               ![r].mail = << MailOfDraft(approve_reqs[r].draft_data[1], smtp) >>]
    /\ UNCHANGED EMAIL_DRAFTS
    /\ ApproveFrame

\* lines 549-565: the draft is deleted and the reply returned; del raises
\* KeyError when the key is gone, which the except clause answers with 500
ApproveDelete(r) ==
    /\ approve_reqs[r].pc = "mailed"
    /\ MayRun(r)
    /\ LET session_id == approve_reqs[r].session_id
       IN  IF session_id \in DOMAIN EMAIL_DRAFTS
           THEN /\ EMAIL_DRAFTS' = [k \in (DOMAIN EMAIL_DRAFTS) \ { session_id } |->
                                       EMAIL_DRAFTS[k]]
                /\ approve_reqs' =
                       [approve_reqs EXCEPT
                          ![r].pc = "done",
                          ![r].http =
                              [status |-> 200,
                               reply  |-> EndpointReply(approve_reqs[r].mail[1].result)]]
           ELSE /\ UNCHANGED EMAIL_DRAFTS
                /\ approve_reqs' =
                       [approve_reqs EXCEPT
                          ![r].pc = "done",
                          ![r].http = [status |-> 500,
                                       error  |-> "'" \o session_id \o "'"]]
    /\ ApproveFrame

ApproveQueries == { "yes send it" }

NextApproveRequest ==
    /\ t_pc = "responded"
    /\ turns < MaxTurns
    /\ turns' = turns + 1
    /\ t_query' \in ApproveQueries
    /\ mode' = "analytics"
    /\ FreshLocals
    /\ UNCHANGED <<chat_model, conversation_history, globalVars>>

InitApprove ==
    /\ chat_model = "gemini-2.5-flash"
    /\ ProcessStart
    /\ t_pc = "received"
    /\ t_query \in ApproveQueries
    /\ mode = "analytics"
    /\ conversation_history = << >>
    /\ TurnStart
    /\ ClassifyIdle
    /\ SearchIdle

NextApprove ==
    \/ MayRun(0) /\ ReceiveQuery
    \/ MayRun(0) /\ BuildConversation
    \/ MayRun(0) /\ EnterAgentLoop
    \/ MayRun(0) /\ SendSucceeds
    \/ MayRun(0) /\ ExecuteTools
    \/ MayRun(0) /\ FinalAnswer
    \/ MayRun(0) /\ StashDraft
    \/ NextApproveRequest
    \/ \E r \in 1..MaxApprovals : ApproveArrives(r)
    \/ \E r \in 1..MaxApprovals : ApproveCheck(r)
    \/ \E r \in 1..MaxApprovals : ApproveSend(r)
    \/ \E r \in 1..MaxApprovals : ApproveDelete(r)

SpecApprove == InitApprove /\ [][NextApprove]_vars

(***************************************************************************)
(* Properties of classify_intent (checked under SpecClassify).             *)
(***************************************************************************)
HasEmailPhrase ==
    \E p \in {"send me", "email this", "email me", "mail me"} :
        Contains(p, Lower(query))

HasVizKeyword == AnyIn(VISUALIZATION_KEYWORDS, Lower(query))

HasNavTerm == AnyIn(strong_nav_terms, Lower(query))

HasNavVerb ==
    \E v \in {"go", "open", "show", "take", "navigate", "launch"} :
        Contains(v, Lower(query))

CategoryNames == {"NAVIGATION", "HELP", "VISUALIZATION", "ANALYTICS", "CHAT"}

NamesNoCategory(t) == \A c \in CategoryNames : ~Contains(c, Upper(t))

\* C1: a query containing an email phrase is classified 'email' whatever the
\* explicit mode and history are, and the generative backend is not called.
C1_EmailAlwaysWins ==
    (cl_pc # "start" /\ HasEmailPhrase) =>
        /\ cl_pc = "returned"
        /\ intent = "email"
        /\ returned_by = "fast"
        /\ llm_calls = 0

C1_Witness ==
    /\ cl_pc = "returned"
    /\ HasEmailPhrase
    /\ explicit_mode = "analytics"
    /\ HasVizKeyword
    /\ history # << >>
    /\ intent = "email"

\* C2: with explicit mode 'analytics' and no email phrase the result is
\* 'visualization' when the text has a visualization keyword and 'analytics'
\* otherwise; the generative backend is not called in either case.
C2_ExplicitAnalytics ==
    (cl_pc # "start" /\ explicit_mode = "analytics" /\ ~HasEmailPhrase) =>
        /\ cl_pc = "returned"
        /\ intent = (IF HasVizKeyword THEN "visualization" ELSE "analytics")
        /\ llm_calls = 0

C2_Witness ==
    /\ cl_pc = "returned"
    /\ explicit_mode = "analytics"
    /\ ~HasEmailPhrase
    /\ HasVizKeyword
    /\ intent = "visualization"
    /\ llm_calls = 0

\* C3: the keyword stage returns 'navigation' only for a query that contains
\* both a navigation target term and an action verb; a target term without
\* a verb never yields 'navigation'.
C3_NavigationNeedsVerbAndTerm ==
    (returned_by = "keyword" /\ intent = "navigation") =>
        (HasNavTerm /\ HasNavVerb)

C3_Witness ==
    /\ returned_by = "keyword"
    /\ HasNavTerm
    /\ ~HasNavVerb
    /\ intent # "navigation"

\* C4: classify_intent never raises; a failed generative call, or a response
\* naming no category, falls through to the keyword stage; the returned
\* value is one of the five intents, and CHAT is mapped to help.
C4_NeverRaises ==
    /\ cl_pc # "raised"
    /\ (cl_pc = "returned") => (intent \in IntentValues)
    /\ (llm_calls > 0 /\ (llm_outcome.kind # "text"
                          \/ NamesNoCategory(llm_outcome.text)))
          => (cl_pc = "fallback" \/ returned_by = "keyword")
    /\ (returned_by = "llm" /\ Upper(Strip(llm_outcome.text)) = "CHAT")
          => (intent = "help")

C4_Witness ==
    /\ llm_outcome.kind = "raise"
    /\ returned_by = "keyword"
    /\ cl_pc = "returned"
    /\ intent \in IntentValues

(***************************************************************************)
(* Properties of search_documents (checked under SpecSearch).              *)
(***************************************************************************)
HasMarker(d) ==
    \/ Contains("under construction", Lower(d.section_title))
    \/ Contains("under construction", Lower(d.content))

Min(a, b) == IF a < b THEN a ELSE b

\* indices of the documents that are ranked: the unmarked ones, or all of
\* them when every document is marked
CandidateIndices ==
    LET clean == {i \in 1..Len(documents) : ~HasMarker(documents[i])}
    IN  IF clean # {} THEN clean ELSE 1..Len(documents)

ScoreOf(i) == BoostScore(sims[i], documents[i], s_query)

ReturnedIndices == {s_result[r].doc : r \in 1..Len(s_result)}

\* C5: a marked ('under construction') document is returned only when every
\* document of the index is marked, and then the full set is ranked instead
\* of returning nothing.
C5_UnderConstructionFiltered ==
    (s_pc = "done") =>
        /\ (\E i \in 1..Len(documents) : ~HasMarker(documents[i])) =>
               (\A r \in 1..Len(s_result) : ~HasMarker(documents[s_result[r].doc]))
        /\ (\A i \in 1..Len(documents) : HasMarker(documents[i])) =>
               /\ Len(s_result) = Min(top_k, Len(documents))
               /\ ReturnedIndices \subseteq 1..Len(documents)

C5_Witness ==
    /\ s_pc = "done"
    /\ Len(documents) >= 2
    /\ \A i \in 1..Len(documents) : HasMarker(documents[i])
    /\ s_result # << >>
    /\ HasMarker(documents[s_result[1].doc])

\* C6: at most top_k pairs are returned, in non-increasing order of boosted
\* score, equal scores in original index order, and no candidate left out
\* scores higher than a returned one.
C6_RankedTopK ==
    (s_pc = "done") =>
        /\ Len(s_result) <= top_k
        /\ Len(s_result) = Min(top_k, Cardinality(CandidateIndices))
        /\ \A r \in 1..Len(s_result) :
               /\ s_result[r].doc \in CandidateIndices
               /\ s_result[r].score = ScoreOf(s_result[r].doc)
        /\ \A i, j \in 1..Len(s_result) :
               (i < j) =>
                   /\ s_result[i].score >= s_result[j].score
                   /\ (s_result[i].score = s_result[j].score) =>
                          (s_result[i].doc < s_result[j].doc)
        /\ \A c \in CandidateIndices \ ReturnedIndices :
               \A r \in 1..Len(s_result) : ScoreOf(c) <= s_result[r].score

C6_Witness ==
    /\ s_pc = "done"
    /\ Cardinality(CandidateIndices) > top_k
    /\ Len(s_result) = top_k
    /\ \E i \in 1..(Len(s_result) - 1) :
           /\ s_result[i].score = s_result[i + 1].score
           /\ s_result[i].doc < s_result[i + 1].doc
    /\ \E c \in CandidateIndices \ ReturnedIndices :
           \E r \in 1..Len(s_result) : c < s_result[r].doc

(***************************************************************************)
(* Properties of handle_query (checked under SpecTurn).                    *)
(***************************************************************************)
\* C7: when the embedding call fails during retrieval, the turn sees an
\* empty result set and no exception; the help-mode turn goes on with an
\* empty context and still makes its generation call.
C7_RetrievalFailureDegrades ==
    embed_failed =>
        /\ raised = NoError
        /\ top_docs = << >>
        /\ t_pc \in {"build", "help_send", "responded"}
        /\ (t_pc \in {"help_send", "responded"}) =>
               /\ context = ""
               /\ user_message = t_query \o "\n\nHelp Context:\n"
        /\ (t_pc = "responded") => (help_sends = 1)

C7_Witness ==
    /\ embed_failed
    /\ t_pc = "responded"
    /\ help_sends = 1
    /\ context = ""
    /\ http = [status |-> 200, reply |-> "Here is the answer."]

\* C8: within one send step the candidates are tried in list order, each
\* list position at most once, stopping at the first success; a failed
\* attempt leaves no session for the next attempt; when every candidate
\* fails the error raised is the last candidate's and no response of that
\* step is processed.
C8_FallbackOrder ==
    LET models == FallbackModels(chat_model)
        n      == Len(attempts)
    IN  /\ n <= Len(models)
        /\ \A i \in 1..n : attempts[i].idx = i /\ attempts[i].model = models[i]
        /\ \A i \in 1..(n - 1) : ~attempts[i].ok
        /\ \A i \in 2..n : attempts[i].pre_session = NoChat.id
        /\ (t_pc = "attempt" /\ n > 0) =>
               /\ ~attempts[n].ok
               /\ chat = NoChat
               /\ model_idx = n + 1
        /\ (t_pc = "process") => (n > 0 /\ attempts[n].ok /\ response.present)
        /\ (raised \in Errors) =>
               /\ n = Len(models)
               /\ \A i \in 1..n : ~attempts[i].ok
               /\ raised = attempts[n].error
               /\ ~response.present
               /\ processed = rounds
               /\ http = ErrorResponse(attempts[n].error)

C8_Witness ==
    /\ t_pc = "responded"
    /\ raised \in Errors
    /\ rounds >= 1
    /\ Len(attempts) = 3
    /\ attempts[1].error # attempts[3].error
    /\ raised = attempts[3].error

\* C9: if a send fails while the pending message is a batch of tool
\* results, every later attempt of that send step transmits the original
\* user utterance, never the tool-result payload.
C9_FallbackResendsUtterance ==
    IsFuncResponse(current_message) =>
        \A i \in 2..Len(attempts) :
            attempts[i].payload = TextMessage(user_message)

\* C10: before every send attempt a new session is created on the model
\* being tried, with the prior history minus the newest message, exactly
\* when no session exists or the existing session is bound to another
\* model; otherwise the existing session is reused.  Every message is sent
\* on a session bound to the model being tried.
C10_SessionBoundToModel ==
    \A i \in 1..Len(attempts) :
        LET a == attempts[i]
        IN  /\ a.created <=> (a.pre_session = NoChat.id \/ a.pre_model # a.model)
            /\ a.created =>
                   /\ a.session > a.pre_session
                   /\ a.session_history = AllButLast(gemini_history)
            /\ ~a.created => (a.session = a.pre_session)
            /\ a.session # NoChat.id
            /\ a.session_model = a.model

C10_Witness ==
    /\ rounds >= 1
    /\ Len(attempts) >= 1
    /\ attempts[1].created
    /\ attempts[1].pre_session # NoChat.id
    /\ attempts[1].pre_model # attempts[1].model
    /\ attempts[1].session_model = attempts[1].model
    /\ attempts[1].payload.kind = "function_response"

(***************************************************************************)
(* Properties of the agent loop and its tools (checked under SpecTools).   *)
(***************************************************************************)
\* the part a tool call contributes to the batch
PartOf(e) == [name |-> e.call.name, result |-> e.result]

\* the calls executed in round n, in the order they were executed
ExecutedIn(n) == SelectSeq(executed, LAMBDA e : e.round = n)

C11_State ==
    /\ (t_pc = "process") =>
           /\ Len(function_responses) <= Len(response.fn_calls)
           /\ Len(ExecutedIn(rounds + 1)) >= Len(function_responses)
           /\ \A i \in 1..Len(function_responses) :
                  /\ function_responses[i].name = response.fn_calls[i].name
                  /\ ExecutedIn(rounds + 1)[i].call = response.fn_calls[i]
                  /\ function_responses[i] = PartOf(ExecutedIn(rounds + 1)[i])
    /\ IsFuncResponse(current_message) =>
           /\ Len(current_message.parts) = Len(ExecutedIn(rounds))
           /\ \A i \in 1..Len(current_message.parts) :
                  /\ ExecutedIn(rounds)[i].index = i
                  /\ current_message.parts[i] = PartOf(ExecutedIn(rounds)[i])
           /\ (attempts # << >>) => (attempts[1].payload = current_message)

C11_Step ==
    (t_pc = "process" /\ executed' # executed) =>
        LET idx == Len(function_responses) + 1
            e   == executed'[Len(executed')]
        IN  /\ executed' = Append(executed, e)
            /\ e.index = idx
            /\ e.call = response.fn_calls[idx]
            /\ (~e.raised /\ idx < Len(response.fn_calls)) =>
                   /\ function_responses' = Append(function_responses, PartOf(e))
                   /\ t_pc' = "process"
            /\ (~e.raised /\ idx = Len(response.fn_calls)) =>
                   /\ current_message' =
                          FunctionResponses(Append(function_responses, PartOf(e)))
                   /\ Len(current_message'.parts) = Len(response.fn_calls)
                   /\ \A i \in 1..Len(response.fn_calls) :
                          current_message'.parts[i].name = response.fn_calls[i].name
                   /\ t_pc' = "attempt"

FinalReached == t_pc = "responded" /\ processed = rounds + 1

C12_Step ==
    /\ (t_pc = "attempt" /\ t_pc' = "process") =>
           /\ response'.present
           /\ attempts'[Len(attempts')].ok
    /\ (t_pc = "process" /\ t_pc' = "attempt") =>
           /\ response.fn_calls # << >>
           /\ IsFuncResponse(current_message')
           /\ rounds' = rounds + 1
    /\ (t_pc = "process" /\ t_pc' # "process") =>
           ((t_pc' = "responded" /\ raised' = NoError) <=> (response.fn_calls = << >>))

\* C12: the loop goes from awaiting a response to executing tools and back
\* while responses carry tool calls, whatever the number of rounds made,
\* and gives its final answer exactly when a response carries none; a final
\* answer is reached only after a send that succeeded with such a response.
C12_LoopStates ==
    /\ [][C12_Step]_vars
    /\ [](FinalReached =>
             /\ attempts # << >>
             /\ attempts[Len(attempts)].ok
             /\ response.present
             /\ response.fn_calls = << >>
             /\ raised = NoError)

C12_Witness ==
    /\ FinalReached
    /\ rounds = MaxRounds
    /\ Len(executed) >= MaxRounds
    /\ http.status = 200

\* the arguments functions_spec requires of a tool
RequiredOf(name) ==
    LET at == { i \in 1..Len(functions_spec) : functions_spec[i].name = name }
    IN  IF at = {} THEN << >> ELSE functions_spec[CHOOSE i \in at : TRUE].required

MissingRequired(call) ==
    \E k \in ToSet(RequiredOf(call.name)) : k \notin DOMAIN call.arguments

\* the call carries query text that _validate_sql rejects
DisallowedSql(call) ==
    \E k \in { "sql", "numerator_sql", "denominator_sql" } \cap DOMAIN call.arguments :
        ValidateSql(call.arguments[k]) # ""

\* C13: a tool call with a missing required argument or with disallowed
\* query text does not fail the turn: its outcome is a result of the batch.
C13_ValidationInline ==
    \A i \in 1..Len(executed) :
        (MissingRequired(executed[i].call) \/ DisallowedSql(executed[i].call)) =>
            /\ ~executed[i].raised
            /\ raised = NoError

\* the environment made the collaborator of this call fail
RenderFailed(e) ==
    /\ e.call.name = "chart_tool"
    /\ e.env = "render_fails"
    /\ ~DisallowedSql(e.call)
    /\ ~MissingRequired(e.call)

SendFailed(e) ==
    /\ e.call.name \in { "draft_email_tool", "mail_tool" }
    /\ e.env = "fails"
    /\ EmailsForUsernames(Get(e.call.arguments, "to_usernames", << >>)) # << >>

WasDispatched(e) == e.raised \/ e.result # UnsupportedResult

\* C15: the tools declared to the backend are the tools the dispatch
\* executes.
C15_DeclaredIsDispatched ==
    \A i \in 1..Len(executed) :
        WasDispatched(executed[i]) <=> (executed[i].call.name \in DeclaredTools)

\* number of occurrences of p in s
Occurrences(p, s) ==
    Cardinality({ i \in 1..(Len(s) - Len(p) + 1) : SubSeq(s, i, i + Len(p) - 1) = p })

\* C16: after an analytics turn that generated a chart the reply embeds the
\* chart markup exactly once.
C16_ChartEmbeddedOnce ==
    (FinalReached /\ last_chart_snippet # "") =>
        Occurrences(last_chart_snippet, http.reply) = 1

\* the navigate_tool calls of the turn, in order
NavigateCalls == SelectSeq(executed, LAMBDA e : e.call.name = "navigate_tool")

MarkerOpening == "<!-- NAVIGATE_TO:"

EndsWith(p, s) == Len(s) >= Len(p) /\ SubSeq(s, Len(s) - Len(p) + 1, Len(s)) = p

CarriesUrl(url) ==
    /\ EndsWith(NavigationMarker(url), http.reply)
    /\ Occurrences(MarkerOpening, http.reply) = 1
    /\ navigation_url = url

CarriesNoUrl ==
    /\ ~Contains(MarkerOpening, http.reply)
    /\ navigation_url = ""

C18_ChartsCapped == Len(LAST_CHARTS) <= ChartCapacity

\* C19: LAST_CHARTS holds the chart references in insertion order, newest
\* last, the oldest being removed beyond the capacity.
C19_InsertionOrder == LAST_CHARTS = LastN(chart_log, ChartCapacity)

\* C20: an approval that finds a pending draft sends it, deletes it and
\* returns the fixed message without a send to the chat backend.
C20_ApprovalSkipsLoop ==
    (intercept = "approved") =>
        /\ ~HasDraft(EMAIL_DRAFTS)
        /\ Len(mails) >= 1
        /\ mails[1].tool = "mail_tool"
        /\ chat_sends = 0
        /\ t_pc # "attempt"
        /\ (t_pc = "responded") => (http.reply = ApprovalReply(mails[1].result))

(***************************************************************************)
(* Properties of the rejection of a draft and of the greeting shortcut     *)
(* (checked under SpecDrafts), and of the e-mail tool (SpecTools).         *)
(***************************************************************************)
\* no generative call was made in the request: neither by classify_intent
\* nor on a chat session
NoBackendCall == llm_calls = 0 /\ chat_sends = 0 /\ help_sends = 0

\* C21: a rejection that finds a pending draft deletes it and returns the
\* cancellation message, and no generative call is made between the receipt
\* of the request and that message.
C21_RejectionSkipsBackend ==
    /\ (intercept = "rejected") =>
           /\ NoBackendCall
           /\ ~HasDraft(EMAIL_DRAFTS)
           /\ http.reply = CancelledReply
    /\ (IsRejected(t_query) /\ HasDraft(EMAIL_DRAFTS) /\ t_pc # "responded") =>
           NoBackendCall

\* the request follows an exchange in which a rejection cancelled the draft
PriorRejection ==
    /\ Len(conversation_history) = 2
    /\ IsRejected(conversation_history[1].content)
    /\ conversation_history[2].content = CancelledReply

\* C22: after a rejection has deleted the draft, a second rejection that
\* finds no draft returns a no-draft outcome, without an error, without a
\* mail and without a generative call.
C22_RejectionIdempotent ==
    (PriorRejection /\ IsRejected(t_query) /\ t_pc = "responded"
       /\ intercept # "rejected") =>
        /\ http.reply \in { CancelledReply, NoDraftReply }
        /\ raised = NoError
        /\ mails = << >>
        /\ chat_sends = 0
        /\ help_sends = 0

\* C23: a call of the e-mail composition tool leaves a pending draft under
\* the session key and hands nothing to the mail collaborator.
C23_CompositionStashesDraft ==
    \A i \in 1..Len(executed) :
        (executed[i].call.name = "draft_email_tool") =>
            /\ HasDraft(EMAIL_DRAFTS)
            /\ mails = << >>

GreetingAsked == t_query # "" /\ InList(Lower(Strip(t_query)), greeting_keywords)

C24_State ==
    (GreetingAsked /\ t_pc # "received") =>
        /\ t_pc = "responded"
        /\ http = [status |-> 200, reply |-> GreetingReply]
        /\ detected_intent = NoIntent
        /\ NoBackendCall
        /\ top_docs = << >>
        /\ ~embed_failed
        /\ sessions_created = 0
        /\ executed = << >>
        /\ mails = << >>

C24_Step ==
    (GreetingAsked /\ t_pc = "received") =>
        UNCHANGED <<EMAIL_DRAFTS, LAST_BODY, LAST_CHARTS>>

\* C24: a query whose trimmed, lower-cased text is a greeting keyword gets
\* the fixed greeting without a call of the classifier, the retriever or the
\* generative backend, and the draft store, LAST_BODY and LAST_CHARTS stay
\* as they were.
C24_GreetingShortcut == [] C24_State /\ [][C24_Step]_vars

C24_Witness ==
    /\ GreetingAsked
    /\ t_query # Lower(Strip(t_query))
    /\ t_pc = "responded"
    /\ http.reply = GreetingReply
    /\ LAST_BODY # ""
    /\ LAST_CHARTS # << >>
    /\ intercept = "none"
    /\ ~HasDraft(EMAIL_DRAFTS)

(***************************************************************************)
(* Properties of the responses (checked under SpecTurn).                   *)
(***************************************************************************)
\* the exception that ended the request: the one that left the agent loop,
\* or the one caught around the help send
TurnError ==
    IF raised # NoError THEN raised
    ELSE IF help_sends > 0 THEN last_error
    ELSE NoError

IsQuotaError(e) == Contains("ResourceExhausted", e.type)

\* C25: every response carries a reply text and status 200, except that of
\* quota exhaustion, which has status 429.
C25_ReplyAndStatus ==
    (t_pc = "responded") =>
        /\ "reply" \in DOMAIN http
        /\ http.status = (IF IsQuotaError(TurnError) THEN 429 ELSE 200)

\* C26: when every candidate model failed in a send step the response is
\* that of quota exhaustion, not the generic apology.
C26_ExhaustionIsOverloaded ==
    (t_pc = "responded" /\ model_idx > Len(FallbackModels(chat_model))) =>
        /\ http.reply \in { QuotaReply, OverloadedReply }
        /\ http.reply # GenericErrorReply

\* C27: a quota error raised by the help-mode send is answered with the
\* quota message, as on the analytics path.
C27_HelpQuotaReply ==
    (t_pc = "responded" /\ help_sends > 0 /\ IsQuotaError(last_error)) =>
        http.reply = QuotaReply

\* C28: a request ended by an exception other than quota exhaustion is
\* answered with the fixed generic apology, whatever the exception says.
C28_GenericApology ==
    (t_pc = "responded" /\ TurnError # NoError /\ ~IsQuotaError(TurnError)) =>
        http = [status |-> 200, reply |-> GenericErrorReply]

\* C30: a detected intent of analytics, visualization, email or navigation
\* is handled by the agent loop whatever the mode of the request, and only
\* the intent help is handled by the help branch.
C30_IntentSelectsPath ==
    /\ (detected_intent \in {"analytics", "visualization", "email", "navigation"}) =>
           (t_pc \notin {"retrieve", "help_send"} /\ help_sends = 0)
    /\ (detected_intent = "help") =>
           (t_pc \notin {"enter", "attempt", "process"} /\ chat_sends = 0)

(***************************************************************************)
(* Property of the query tools (checked under SpecSql).                    *)
(***************************************************************************)
\* C29: every text the query tools hand to the query executor passes the
\* read-only validation.
C29_OnlyValidatedTextRuns ==
    \A i \in 1..Len(executed) :
        \A k \in 1..Len(executed[i].queries) :
            ValidateSql(executed[i].queries[k]) = ""

(***************************************************************************)
(* E-mail calls of the agent loop (lines 1110-1134).                       *)
(***************************************************************************)
\* the chart references found in the results of the chart calls executed so
\* far in this turn
ChartsOfThisTurn ==
    UNION { ToSet(FindChartRefs(executed[i].result, "", 1)) :
              i \in { j \in 1..Len(executed) :
                        /\ executed[j].call.name = "chart_tool"
                        /\ IsChartMarkup(executed[j].result) } }

\* the step of ExecuteTools that executes an e-mail call
IsMailStep ==
    /\ t_pc = "process"
    /\ Len(mails') = Len(mails) + 1

C31_MailStep ==
    IsMailStep =>
        LET call == response.fn_calls[Len(function_responses) + 1]
            m    == mails'[Len(mails')]
        IN  /\ m.tool = call.name
            /\ m.attachments = ToSet(Get(call.arguments, "attachments", << >>))
                               \cup ToSet(LAST_CHARTS)
            /\ ChartsOfThisTurn \subseteq m.attachments
            /\ Get(call.arguments, "body_markdown", "") = "" => m.body = LAST_BODY

\* C31: when the agent loop executes an e-mail call, the attachments handed
\* to the mail tool are the union of the call's own attachments and of
\* LAST_CHARTS as it is at the call, the references of the charts made
\* earlier in the same turn included; a call without a body is given
\* LAST_BODY as its body.
C31_MailCarriesChartsAndBody == [][C31_MailStep]_vars

\* a second turn has mailed, without a body of its own, the chart it made
\* together with the chart of the turn before and an explicit attachment
\* that names the older chart again
C31_Witness ==
    /\ t_pc = "process"
    /\ turns = 1
    /\ LAST_BODY # ""
    /\ \E i \in 1..Len(mails) :
        /\ mails[i].tool = "draft_email_tool"
        /\ mails[i].body = LAST_BODY
        /\ mails[i].attachments =
               { ChartRef(1), ChartRef(2), "/static/report.pdf" }
        /\ ChartRef(2) \in ChartsOfThisTurn
        /\ ChartRef(1) \in ToSet(LAST_CHARTS)

(***************************************************************************)
(* Tool results and the session they are sent on (lines 1007-1043).        *)
(***************************************************************************)
\* C32: a batch of tool results is only sent on the session that produced
\* the tool calls, never on a session created for the attempt: a session
\* just created holds the earlier conversation only and has not seen the
\* calls the results answer.
C32_ResultsOnProducingSession ==
    \A i \in 1..Len(attempts) :
        IsFuncResponse(attempts[i].payload) => ~attempts[i].created

(***************************************************************************)
(* Rejection of a pending draft (lines 899-949).                           *)
(***************************************************************************)
\* the draft of the session was handed to the mail tool in this request
DraftWasMailed ==
    /\ intercept = "approved"
    /\ \E i \in 1..Len(mails) : mails[i].to = PendingDraft.recipients
                                /\ mails[i].subject = PendingDraft.subject
                                /\ mails[i].body = PendingDraft.body

\* C33: an utterance of the rejection vocabulary never has the pending
\* draft mailed, and no utterance is recognised both as an approval and as
\* a rejection.
C33_RejectionNeverSends ==
    /\ IsRejected(t_query) => ~DraftWasMailed
    /\ ~(IsApproved(t_query) /\ IsRejected(t_query))

(***************************************************************************)
(* LAST_CHARTS across turns (lines 1180-1196).                             *)
(***************************************************************************)
\* the step that returns the final answer of an analytics turn
IsFinalAnswerStep ==
    /\ t_pc = "process"
    /\ t_pc' = "responded"
    /\ raised' = NoError

C34_FinalAnswerStep ==
    IsFinalAnswerStep =>
        LET earlier == ToSet(LAST_CHARTS) \ ChartsOfThisTurn
        IN  Cardinality(ToSet(LAST_CHARTS)) <= ChartCapacity
                => earlier \subseteq ToSet(LAST_CHARTS')

\* C34: the final answer of an analytics turn keeps in LAST_CHARTS every
\* reference recorded by earlier turns, whether or not the turn made a chart,
\* unless the list is over its capacity of 5.
C34_EarlierChartsKept == [][C34_FinalAnswerStep]_vars

(***************************************************************************)
(* The direct approval endpoint (lines 525-566).                           *)
(***************************************************************************)
\* mail_tool reported a successful send (analytics_tools.py line 813)
MailSucceeded(m) == StartsWith("[OK]", m.result)

\* C35: when the endpoint finds a draft and the mail tool reports a
\* successful send, the reply is the success confirmation; the failure reply
\* is given only when the mail tool reports an error; the reply is the one
\* the in-chat approval gives for the same outcome.
C35_EndpointVerdict ==
    \A r \in 1..MaxApprovals :
        (approve_reqs[r].pc = "done" /\ approve_reqs[r].mail # << >>) =>
            LET m == approve_reqs[r].mail[1]
            IN  /\ MailSucceeded(m) <=> approve_reqs[r].http.reply = SentReply
                /\ approve_reqs[r].http.reply = ApprovalReply(m.result)

\* mail record m carries the fields of draft d
MailIsOfDraft(m, d) ==
    /\ m.to = d.recipients
    /\ m.subject = d.subject
    /\ m.body = d.body
    /\ m.attachments = ToSet(d.attachments)

\* request r to the endpoint returns in this step
EndpointReturns(r) == approve_reqs[r].pc # "done" /\ approve_reqs'[r].pc = "done"

\* the chat handler makes its approval test in this step and recognises one
ChatApproves == intercept = "none" /\ intercept' \in { "approved", "approved_no_draft" }

C36_ApprovalStep ==
    /\ \A r \in 1..MaxApprovals :
        EndpointReturns(r) =>
            LET a == approve_reqs'[r]
            IN  IF a.draft_data # << >>
                THEN /\ Len(a.mail) = 1
                     /\ MailIsOfDraft(a.mail[1], a.draft_data[1])
                     /\ a.session_id \notin DOMAIN EMAIL_DRAFTS'
                ELSE /\ a.mail = << >>
                     /\ EMAIL_DRAFTS' = EMAIL_DRAFTS
    /\ ChatApproves =>
            IF HasDraft(EMAIL_DRAFTS)
            THEN /\ Len(mails') = Len(mails) + 1
                 /\ MailIsOfDraft(mails'[Len(mails')], EMAIL_DRAFTS[SessionId])
                 /\ ~HasDraft(EMAIL_DRAFTS')
            ELSE /\ mails' = mails
                 /\ EMAIL_DRAFTS' = EMAIL_DRAFTS

HoldsDraft(r) == approve_reqs[r].pc \in { "found", "mailed" }

C38_State ==
    /\ Cardinality({ h \in Handlers : Running(h) }) <= 1
    /\ \A r \in 1..MaxApprovals : approve_reqs[r].http.status # 500

\* a step that hands a draft to the mail tool does so for a draft that is
\* pending and that no other request has mailed and not yet deleted
C38_Step ==
    /\ \A r \in 1..MaxApprovals :
        (approve_reqs[r].pc = "found" /\ approve_reqs'[r].pc = "mailed") =>
            /\ approve_reqs[r].session_id \in DOMAIN EMAIL_DRAFTS
            /\ \A g \in (1..MaxApprovals) \ { r } : ~HoldsDraft(g)
    /\ (ChatApproves /\ intercept' = "approved") =>
            \A g \in 1..MaxApprovals : ~HoldsDraft(g)
    /\ \A r \in 1..MaxApprovals :
        HoldsDraft(r) => (EMAIL_DRAFTS' # EMAIL_DRAFTS => EndpointReturns(r))

\* C38: with two approval requests in flight and one draft pending, the
\* draft is handed to the mail tool at most once and no request fails when
\* it deletes the draft: between a handler finding the draft and deleting
\* it, no other handler runs.
C38_ApprovalsDoNotInterleave == [] C38_State /\ [][C38_Step]_vars

\* one request has mailed the draft and not yet deleted it while a second
\* request for the same session waits for its turn
C38_Witness ==
    /\ HasDraft(EMAIL_DRAFTS)
    /\ \E r, g \in 1..MaxApprovals :
        /\ r # g
        /\ approve_reqs[r].pc = "mailed"
        /\ approve_reqs[r].session_id = SessionId
        /\ approve_reqs[g].pc = "awaiting"
        /\ approve_reqs[g].session_id = SessionId

(***************************************************************************)
(* The help branch (lines 1210-1336).                                      *)
(***************************************************************************)
\* the request is being handled on the help branch
OnHelpPath == mode # "analytics" /\ t_pc \in { "retrieve", "build", "help_send" }

C37_HelpStep ==
    OnHelpPath =>
        /\ UNCHANGED <<LAST_BODY, LAST_CHARTS>>
        /\ executed' = << >>
        /\ chat_sends' = 0 /\ attempts' = << >> /\ sessions_created' = 0
        /\ t_pc = "help_send" => (t_pc' = "responded" /\ help_sends' = 1)
        /\ t_pc # "help_send" => help_sends' = 0

\* C37: a turn handled on the help branch leaves LAST_BODY and LAST_CHARTS
\* as they were, executes no tool and makes exactly one chat send, on the
\* help session, without a fallback attempt when the send fails.
C37_HelpPathFrame == [][C37_HelpStep]_vars

\* a help turn whose send failed has been answered, after an earlier turn
\* had recorded an answer text and a chart
C37_Witness ==
    /\ t_pc = "responded"
    /\ mode = "help"
    /\ help_sends = 1
    /\ last_error # NoError
    /\ LAST_BODY # ""
    /\ LAST_CHARTS # << >>

(***************************************************************************)
(* navigate_tool (analytics_tools.py lines 851-929).                       *)
(***************************************************************************)
\* the destination text names the route: it holds one of the route's
\* keywords, its name or its id
NamesRoute(route, dest_lower) ==
    \/ \E k \in 1..Len(route.keywords) : Contains(Lower(route.keywords[k]), dest_lower)
    \/ Contains(Lower(route.name), dest_lower)
    \/ Contains(Lower(route.id), dest_lower)

\* C39: navigate_tool answers with action "navigate" and a route's URL only
\* when the destination names that route; a destination that names no
\* route, the empty one included, gets a result that is not a navigation
\* and carries no URL; of several routes named the first configured wins.
C39_NavigateOnlyToNamedRoute ==
    \A i \in 1..Len(executed) :
        executed[i].call.name = "navigate_tool" =>
            LET dest_lower == Strip(Lower(Get(executed[i].call.arguments,
                                              "destination", "")))
                named == { r \in 1..Len(Routes) : NamesRoute(Routes[r], dest_lower) }
                out   == executed[i].result
            IN  IF named = {}
                THEN JsonGet(out, "action") # "navigate" /\ JsonGet(out, "url") = ""
                ELSE /\ JsonGet(out, "action") = "navigate"
                     /\ JsonGet(out, "url") =
                            Routes[CHOOSE r \in named : \A q \in named : r <= q].url

(***************************************************************************)
(* chunk_text (src/enhance_embeddings.py lines 78-100).                    *)
(***************************************************************************)
\* position p of the text lies inside one of the chunks returned
InSomeChunk(p) ==
    \E i \in 1..Len(chunker.spans) :
        chunker.spans[i].start <= p /\ p < chunker.spans[i].end

\* C40: the chunks chunk_text returns cover the text, every position that
\* holds a non-whitespace character lying inside a chunk, and they are in
\* increasing order of their start.
C40_ChunksCoverText ==
    chunker.pc = "returned" =>
        /\ \A p \in 0..(Len(chunker.text) - 1) :
               ~IsSpace(CharAt(chunker.text, p + 1)) => InSomeChunk(p)
        /\ \A i, j \in 1..Len(chunker.spans) :
               i < j => chunker.spans[i].start < chunker.spans[j].start

====
